---- MODULE Spec2Model ----
(***************************************************************************)
(* Goal/step orchestration engine of axplorer's Excel LLM example:         *)
(* the plan lifecycle state machine (GoalStateMachine), the goal planner's  *)
(* plan validation (HighLevelPlanner.validate_plan), and the controller     *)
(* (ExcelLLMController._handle_user_input) driving the goal execution loop  *)
(* (GoalExecutor).                                                          *)
(*                                                                         *)
(* Python strings are modelled as sequences: a request is a sequence of    *)
(* lines (the user's text, then one line per appended "Feedback i: f"),     *)
(* an error message is a sequence of text fragments.  Optional[str] is a   *)
(* record [none, s].                                                        *)
(***************************************************************************)
EXTENDS Integers, Sequences, FiniteSets, TLC

----------------------------------------------------------------------------
(* Bounds of the model *)

\* goals in a plan the plan-generation service returns; ids range over 1..MaxGoals
MaxGoals == 2
\* entries in a goal's dependency list
MaxDeps == 1
\* feedback texts submitted for one request
MaxFeedback == 2
\* goals and dependency entries of the plans validate_plan is applied to in ValSpec
ValMaxGoals == 3
ValMaxDeps == 2
\* steps plan_goal_execution returns for a goal
MaxSteps == 2
\* times the user answers yes to replanning within one execute_goals call
MaxReplans == 1

----------------------------------------------------------------------------
(* Values *)

\* GoalState (goal_state_machine.py:16-23); each value is the member's str(),
\* which is what the "Invalid event ... for state ..." message prints
CREATING_GOALS == "GoalState.CREATING_GOALS"
REVIEWING_GOALS == "GoalState.REVIEWING_GOALS"
AWAITING_FEEDBACK == "GoalState.AWAITING_FEEDBACK"
CONFIRMING_REJECTION == "GoalState.CONFIRMING_REJECTION"
GOALS_ACCEPTED == "GoalState.GOALS_ACCEPTED"
FAILED == "GoalState.FAILED"
GoalState ==
    {CREATING_GOALS, REVIEWING_GOALS, AWAITING_FEEDBACK, CONFIRMING_REJECTION,
     GOALS_ACCEPTED, FAILED}

\* GoalEvent (goal_state_machine.py:36-44)
PLAN_CREATED == "GoalEvent.PLAN_CREATED"
REVIEW_CHOICE_MADE == "GoalEvent.REVIEW_CHOICE_MADE"
FEEDBACK_PROVIDED == "GoalEvent.FEEDBACK_PROVIDED"
CONFIRM_REJECTION == "GoalEvent.CONFIRM_REJECTION"
ERROR_OCCURRED == "GoalEvent.ERROR_OCCURRED"
GOALS_COMPLETED == "GoalEvent.GOALS_COMPLETED"
GOALS_FAILED == "GoalEvent.GOALS_FAILED"
GoalEvent ==
    {PLAN_CREATED, REVIEW_CHOICE_MADE, FEEDBACK_PROVIDED, CONFIRM_REJECTION,
     ERROR_OCCURRED, GOALS_COMPLETED, GOALS_FAILED}

\* ReviewChoice and ConfirmChoice (goal_state_machine.py:25-34)
ACCEPT == "accept"
MODIFY == "modify"
REJECT == "reject"
ReviewChoice == {ACCEPT, MODIFY, REJECT}
YES == "yes"
NO == "no"
ConfirmChoice == {YES, NO}

\* GoalStatus (goal.py:10-16)
PENDING == "pending"
IN_PROGRESS == "in_progress"
COMPLETED == "completed"
GOAL_FAILED == "failed"
NEEDS_REVIEW == "needs_review"

\* A keyword argument that the caller did not pass.
Missing == "<missing>"
\* A keyword argument passed as Python None.
PyNone == "<None>"
\* A value that is truthy and is no member of the expected enum.
Unrecognized == "<unrecognized>"

\* Optional[str]
None == [none |-> TRUE, s |-> <<>>]
Some(s) == [none |-> FALSE, s |-> s]

\* One line of a request string: the user's own text (idx 0), or the text that
\* f"\nFeedback {idx}: {fb}" appends.
TextLine(t) == [idx |-> 0, text |-> t]
FeedbackLine(i, fb) == [idx |-> i, text |-> fb]

\* The texts a user types as a request, and as feedback.
Requests == {"r1", "r2"}
Feedbacks == {"A", "B"}
\* The messages a caller passes with ERROR_OCCURRED: the text of an exception,
\* which is empty for an exception raised without arguments.
Messages == {"boom", ""}

\* Goal(id=..., dependencies=...) with the dataclass defaults (goal.py:61-72)
Goal(id, dependencies) ==
    [id |-> id, dependencies |-> dependencies, status |-> PENDING,
     steps |-> <<>>, error_message |-> PyNone, started_at |-> FALSE,
     completed_at |-> FALSE]

\* Sequences over S of length at most n
SeqUpTo(S, n) == UNION {[1..k -> S] : k \in 0..n}

\* The goal data a well-formed response of the plan-generation service carries:
\* an array of objects with an id and a dependency list.
GoalData(maxGoals, maxDeps) ==
    [id : 1..maxGoals, dependencies : SeqUpTo(1..maxGoals, maxDeps)]
PlanData(maxGoals, maxDeps) == SeqUpTo(GoalData(maxGoals, maxDeps), maxGoals)

----------------------------------------------------------------------------
(* HighLevelPlanner.validate_plan *)

\* goal_dict = {g.id: g for g in all_goals}: a later goal overwrites an earlier
\* one with the same id.
goal_dict(all_goals, id) ==
    LET last == CHOOSE i \in DOMAIN all_goals :
                    /\ all_goals[i].id = id
                    /\ \A j \in DOMAIN all_goals : all_goals[j].id = id => j <= i
    IN  all_goals[last]

goal_dict_keys(all_goals) == {all_goals[i].id : i \in DOMAIN all_goals}

\* The loop over goal.dependencies from position k on; each recursive call gets
\* its own copy of visited (visited.copy()).
RECURSIVE check_dependencies(_, _, _)
RECURSIVE check_dependencies_from(_, _, _, _)
check_dependencies_from(goal, all_goals, visited, k) ==
    IF k > Len(goal.dependencies) THEN TRUE
    ELSE LET dep_id == goal.dependencies[k] IN
         IF dep_id \notin goal_dict_keys(all_goals) THEN FALSE
         ELSE IF ~check_dependencies(goal_dict(all_goals, dep_id), all_goals, visited)
              THEN FALSE
              ELSE check_dependencies_from(goal, all_goals, visited, k + 1)

check_dependencies(goal, all_goals, visited) ==
    IF goal.id \in visited THEN FALSE
    ELSE check_dependencies_from(goal, all_goals, visited \cup {goal.id}, 1)

\* validate_plan with one visited set for the whole traversal of a goal (no
\* visited.copy()): a goal reached along two paths counts as a cycle
RECURSIVE visit_shared(_, _, _)
RECURSIVE visit_shared_from(_, _, _, _)
visit_shared_from(goal, all_goals, acc, k) ==
    IF ~acc.ok \/ k > Len(goal.dependencies) THEN acc
    ELSE LET dep_id == goal.dependencies[k] IN
         IF dep_id \notin goal_dict_keys(all_goals)
         THEN [acc EXCEPT !.ok = FALSE]
         ELSE visit_shared_from(
                  goal, all_goals,
                  visit_shared(goal_dict(all_goals, dep_id), all_goals, acc), k + 1)
visit_shared(goal, all_goals, acc) ==
    IF goal.id \in acc.visited THEN [acc EXCEPT !.ok = FALSE]
    ELSE visit_shared_from(goal, all_goals,
                           [acc EXCEPT !.visited = @ \cup {goal.id}], 1)
validate_plan_shared_visited(gs) ==
    /\ Len(gs) = Cardinality({gs[i].id : i \in DOMAIN gs})
    /\ \A i \in DOMAIN gs : visit_shared(gs[i], gs, [ok |-> TRUE, visited |-> {}]).ok

validate_plan(gs) ==
    LET goal_ids == [i \in DOMAIN gs |-> gs[i].id] IN
    IF Len(goal_ids) # Cardinality({goal_ids[i] : i \in DOMAIN goal_ids}) THEN FALSE
    ELSE \A i \in DOMAIN gs : check_dependencies(gs[i], gs, {})

----------------------------------------------------------------------------
(* State *)

VARIABLES
    \* GoalStateMachine fields (goal_state_machine.py:61-69)
    state, goals, error, feedback_history, original_request,
    \* the value the last handle_event call returned, and that call
    result, call,
    \* what the caller of the machine has submitted so far (history)
    hist,
    \* the plan validate_plan is applied to, and its answer (ValSpec)
    val_goals, val_answer,
    \* the arguments validate_step_result (StepValSpec) or execute_step
    \* (StepExecSpec) is applied to, and what it returns
    val_step, val_result,
    \* the worker running ExcelLLMController._handle_user_input: its position,
    \* and the exception travelling up from execute_goals
    pc, exc,
    \* GoalExecutor: current_goal_index, the step list of the goal being
    \* executed (the local steps of execute_current_goal), the position of its
    \* for loop, and the number of execute_current_goal frames below the
    \* running one
    current_goal_index, steps, step_index, depth,
    \* who called execute_goals ("controller": _handle_user_input; "direct": any
    \* other caller of the GoalExecutor), and how the last call ended
    caller, returned,
    \* within one execute_goals call: the step failures reported, and the
    \* on_step_failure calls made
    failures, consultations,
    \* what the on_steps_update observer was last called with: the statuses of
    \* the step list and the position of the current step (0 for None)
    steps_update,
    \* what the on_goal_update observer was last called with: the position of
    \* the goal and its status
    goal_update,
    \* AutomationUI: active_thread (a Thread object or None), the number of
    \* live worker threads, and whether a submission has been turned away since
    \* the live worker started
    active_thread, workers, rejected,
    \* AutomationUI: the thread holding self.lock, the thread holding
    \* self.thread_lock (None, "worker" or "ui"), and the position of the UI
    \* thread ("mainloop", or "log_message" while _handle_input waits for
    \* self.lock with its rejection message)
    lock, thread_lock, ui_pc

mvars == <<state, goals, error, feedback_history, original_request>>
vvars == <<val_goals, val_answer, val_step, val_result>>
evars == <<current_goal_index, steps, step_index, depth>>
gvars == <<returned, failures, consultations>>
uvars == <<active_thread, workers, rejected>>
lvars == <<lock, thread_lock, ui_pc>>
xvars == <<pc, exc, current_goal_index, steps, step_index, depth, caller,
           returned, failures, consultations, steps_update, goal_update,
           active_thread, workers, rejected, lock, thread_lock, ui_pc>>
vars == <<state, goals, error, feedback_history, original_request, result, call,
          hist, val_goals, val_answer, val_step, val_result, pc, exc,
          current_goal_index, steps, step_index, depth, caller, returned,
          failures, consultations, steps_update, goal_update, active_thread,
          workers, rejected, lock, thread_lock, ui_pc>>

\* The machine's fields as one value
Machine ==
    [state |-> state, goals |-> goals, error |-> error,
     feedback_history |-> feedback_history, original_request |-> original_request]

\* GoalStateResult (goal_state_machine.py:46-53); none marks a call that
\* returned Python None instead of a GoalStateResult
GoalStateResult(new_state, gs, err, needs_input) ==
    [none |-> FALSE, new_state |-> new_state, goals |-> gs, error |-> err,
     needs_input |-> needs_input]
NoResult ==
    [none |-> TRUE, new_state |-> "", goals |-> <<>>, error |-> None,
     needs_input |-> FALSE]

\* What one run of a handler yields: the machine after it, the value it returns,
\* the requests it handed to generate_plan, the text of the exception it caught
\* (<<>> when it caught none), and the text of the exception that leaves it
\* (<<>> when it returns)
Outcome(m, res, handed) ==
    [m |-> m, result |-> res, handed |-> handed, raised |-> <<>>, exc |-> <<>>]

\* raise: the handler ends here, with the machine as it is
Raise(m, text, handed) ==
    [m |-> m, result |-> NoResult, handed |-> handed, raised |-> <<>>, exc |-> text]

----------------------------------------------------------------------------
(* The collaborators' answers during one call *)

\* get_compact_excel_yaml: the snapshot, None (excel_helper.py:54-59), or an
\* exception of the explorer
CaptureOk == "snapshot"
CaptureNone == "no snapshot"
CaptureRaises == "capture raises"
\* the plan-generation service's response: well-formed goal data, text that is
\* no JSON, or goal data with a required key absent
LlmPlan == "goal data"
LlmBadJson == "not json"
LlmMissingField == "missing field"

CaptureErrorText == <<"explorer failed">>
BadJsonText == <<"Failed to parse LLM response as JSON">>
MissingFieldText == <<"Missing required field in goal data">>

\* capture is the answer to the first get_compact_excel_yaml call of the handler,
\* recapture the answer to the second one (_handle_plan_feedback captures, and
\* then _handle_plan_creation captures again)
Envs(plans) ==
    {e \in [capture : {CaptureOk, CaptureNone, CaptureRaises},
            recapture : {CaptureOk, CaptureRaises},
            llm : {LlmPlan, LlmBadJson, LlmMissingField},
            plan : plans] :
        e.llm # LlmPlan => e.plan = <<>>}
\* the environment of a call that reaches no collaborator
NoEnv ==
    [capture |-> CaptureOk, recapture |-> CaptureOk, llm |-> LlmPlan, plan |-> <<>>]

\* generate_plan's conversion of the goal data to Goal objects
\* (high_level_planner.py:88-98)
generate_plan_goals(plan) ==
    [i \in DOMAIN plan |-> Goal(plan[i].id, plan[i].dependencies)]

----------------------------------------------------------------------------
(* GoalStateMachine *)

handle_error(m, error_msg) ==
    Outcome([m EXCEPT !.state = FAILED, !.error = Some(error_msg)],
            GoalStateResult(FAILED, m.goals, Some(error_msg), FALSE), <<>>)

\* except Exception as e: return self._handle_error(prefix + str(e)), around
\* the run o of a try block
Except(o, prefix) ==
    IF o.exc = <<>> THEN o
    ELSE [handle_error(o.m, prefix \o o.exc)
            EXCEPT !.raised = o.exc, !.handed = o.handed]

\* the try block of _handle_plan_creation with the new plan patched into the
\* stored one: a goal that has the id of the stored goal at its position keeps
\* that goal's status
plan_creation_try_patching(m, user_request, env) ==
    IF env.capture = CaptureRaises THEN Raise(m, CaptureErrorText, <<>>)
    ELSE IF env.llm = LlmBadJson THEN Raise(m, BadJsonText, <<user_request>>)
    ELSE IF env.llm = LlmMissingField
    THEN Raise(m, MissingFieldText, <<user_request>>)
    ELSE LET new == generate_plan_goals(env.plan)
             m1 == [m EXCEPT !.goals =
                      [i \in DOMAIN new |->
                          IF i \in DOMAIN m.goals /\ m.goals[i].id = new[i].id
                          THEN [new[i] EXCEPT !.status = m.goals[i].status]
                          ELSE new[i]]]
         IN
         IF ~validate_plan(m1.goals)
         THEN [handle_error(m1, <<"Generated plan has invalid structure">>)
                 EXCEPT !.handed = <<user_request>>]
         ELSE Outcome([m1 EXCEPT !.state = REVIEWING_GOALS],
                      GoalStateResult(REVIEWING_GOALS, m1.goals, None, FALSE),
                      <<user_request>>)

\* the try block of _handle_plan_creation (goal_state_machine.py:119-132)
plan_creation_try(m, user_request, env) ==
    IF env.capture = CaptureRaises THEN Raise(m, CaptureErrorText, <<>>)
    ELSE IF env.llm = LlmBadJson THEN Raise(m, BadJsonText, <<user_request>>)
    ELSE IF env.llm = LlmMissingField
    THEN Raise(m, MissingFieldText, <<user_request>>)
    ELSE LET m1 == [m EXCEPT !.goals = generate_plan_goals(env.plan)] IN
         IF ~validate_plan(m1.goals)
         THEN [handle_error(m1, <<"Generated plan has invalid structure">>)
                 EXCEPT !.handed = <<user_request>>]
         ELSE Outcome([m1 EXCEPT !.state = REVIEWING_GOALS],
                      GoalStateResult(REVIEWING_GOALS, m1.goals, None, FALSE),
                      <<user_request>>)

\* _handle_plan_creation that moves on to REVIEWING_GOALS whatever validate_plan
\* answers
handle_plan_creation_unvalidated(m, user_request, env) ==
    LET o == Except(plan_creation_try(m, user_request, env),
                    <<"Error generating plan:">>)
    IN  IF o.raised = <<>> /\ o.handed # <<>>
        THEN Outcome([o.m EXCEPT !.state = REVIEWING_GOALS, !.error = m.error],
                     GoalStateResult(REVIEWING_GOALS, o.m.goals, None, FALSE),
                     o.handed)
        ELSE o

handle_plan_creation(m, user_request, env) ==
    Except(plan_creation_try(m, user_request, env), <<"Error generating plan:">>)

\* _handle_review_choice with the MODIFY and REJECT cases exchanged
handle_review_choice_swapped(m, choice) ==
    IF choice \in {Missing, PyNone}
    THEN Outcome(m, GoalStateResult(m.state, m.goals, None, TRUE), <<>>)
    ELSE IF choice = ACCEPT
    THEN Outcome([m EXCEPT !.state = GOALS_ACCEPTED],
                 GoalStateResult(GOALS_ACCEPTED, m.goals, None, FALSE), <<>>)
    ELSE IF choice = REJECT
    THEN Outcome([m EXCEPT !.state = AWAITING_FEEDBACK],
                 GoalStateResult(AWAITING_FEEDBACK, m.goals, None, TRUE), <<>>)
    ELSE IF choice = MODIFY
    THEN Outcome([m EXCEPT !.state = CONFIRMING_REJECTION],
                 GoalStateResult(CONFIRMING_REJECTION, m.goals, None, TRUE), <<>>)
    ELSE Outcome(m, NoResult, <<>>)

handle_review_choice(m, choice) ==
    IF choice \in {Missing, PyNone}
    THEN Outcome(m, GoalStateResult(m.state, m.goals, None, TRUE), <<>>)
    ELSE IF choice = ACCEPT
    THEN Outcome([m EXCEPT !.state = GOALS_ACCEPTED],
                 GoalStateResult(GOALS_ACCEPTED, m.goals, None, FALSE), <<>>)
    ELSE IF choice = MODIFY
    THEN Outcome([m EXCEPT !.state = AWAITING_FEEDBACK],
                 GoalStateResult(AWAITING_FEEDBACK, m.goals, None, TRUE), <<>>)
    ELSE IF choice = REJECT
    THEN Outcome([m EXCEPT !.state = CONFIRMING_REJECTION],
                 GoalStateResult(CONFIRMING_REJECTION, m.goals, None, TRUE), <<>>)
    \* no case of the match statement applies: the function ends without a
    \* return statement
    ELSE Outcome(m, NoResult, <<>>)

\* _handle_rejection_confirmation that resets the feedback history on NO as well
handle_rejection_confirmation_resets_on_no(m, confirm) ==
    IF confirm \in {Missing, PyNone}
    THEN Outcome(m, GoalStateResult(m.state, m.goals, None, TRUE), <<>>)
    ELSE IF confirm = YES
    THEN Outcome([m EXCEPT !.feedback_history = <<>>, !.original_request = None,
                           !.state = CREATING_GOALS],
                 GoalStateResult(CREATING_GOALS, <<>>, None, TRUE), <<>>)
    ELSE IF confirm = NO
    THEN Outcome([m EXCEPT !.feedback_history = <<>>, !.state = REVIEWING_GOALS],
                 GoalStateResult(REVIEWING_GOALS, m.goals, None, TRUE), <<>>)
    ELSE Outcome(m, NoResult, <<>>)

handle_rejection_confirmation(m, confirm) ==
    IF confirm \in {Missing, PyNone}
    THEN Outcome(m, GoalStateResult(m.state, m.goals, None, TRUE), <<>>)
    ELSE IF confirm = YES
    THEN Outcome([m EXCEPT !.feedback_history = <<>>, !.original_request = None,
                           !.state = CREATING_GOALS],
                 GoalStateResult(CREATING_GOALS, <<>>, None, TRUE), <<>>)
    ELSE IF confirm = NO
    THEN Outcome([m EXCEPT !.state = REVIEWING_GOALS],
                 GoalStateResult(REVIEWING_GOALS, m.goals, None, TRUE), <<>>)
    ELSE Outcome(m, NoResult, <<>>)

\* self.original_request or ""
original_or_empty(request) ==
    IF request.none THEN <<>> ELSE request.s

\* the enhanced request numbered by enumerate(self.feedback_history), from 0
enhanced_request_from_zero(request, history) ==
    original_or_empty(request)
        \o [i \in DOMAIN history |-> FeedbackLine(i - 1, history[i])]

\* enhanced_request += f"\nFeedback {idx}: {fb}" for idx, fb in
\* enumerate(self.feedback_history, 1)
enhanced_request(request, history) ==
    original_or_empty(request)
        \o [i \in DOMAIN history |-> FeedbackLine(i, history[i])]

\* the try block of _handle_plan_feedback (goal_state_machine.py:212-222)
plan_feedback_try(m, feedback, env) ==
    LET m1 == [m EXCEPT !.feedback_history = Append(@, feedback)] IN
    IF env.capture = CaptureRaises THEN Raise(m1, CaptureErrorText, <<>>)
    ELSE handle_plan_creation(
             m1, enhanced_request(m1.original_request, m1.feedback_history),
             [env EXCEPT !.capture = env.recapture])

handle_plan_feedback(m, feedback, env) ==
    Except(plan_feedback_try(m, feedback, env), <<>>)

\* the message naming the state the machine is in once _handle_error has run
invalid_event_text_after(event, st) == <<"Invalid event", event, "for state", FAILED>>

\* the text of the message for a pair that has no case of its own
invalid_event_text(event, st) == <<"Invalid event", event, "for state", st>>

\* str(KeyError(key)): the key, in quotes
KeyErrorText(key) == <<"'", key, "'">>

\* the match statement of handle_event (goal_state_machine.py:87-111)
handle_event_try(m, event, kwargs, env) ==
    IF m.state = CREATING_GOALS /\ event = PLAN_CREATED
    THEN IF kwargs.user_request = Missing
         THEN Raise(m, KeyErrorText("user_request"), <<>>)
         ELSE handle_plan_creation(
                  [m EXCEPT !.original_request = Some(<<TextLine(kwargs.user_request)>>),
                            !.feedback_history = <<>>],
                  <<TextLine(kwargs.user_request)>>, env)
    ELSE IF m.state = REVIEWING_GOALS /\ event = REVIEW_CHOICE_MADE
    THEN handle_review_choice(m, kwargs.choice)
    ELSE IF m.state = AWAITING_FEEDBACK /\ event = FEEDBACK_PROVIDED
    THEN IF kwargs.feedback = Missing
         THEN Raise(m, KeyErrorText("feedback"), <<>>)
         ELSE handle_plan_feedback(m, kwargs.feedback, env)
    ELSE IF m.state = CONFIRMING_REJECTION /\ event = CONFIRM_REJECTION
    THEN handle_rejection_confirmation(m, kwargs.confirm)
    ELSE IF m.state = GOALS_ACCEPTED /\ event \in {GOALS_COMPLETED, GOALS_FAILED}
    THEN Outcome([m EXCEPT !.state = CREATING_GOALS],
                 GoalStateResult(CREATING_GOALS, <<>>, None, FALSE), <<>>)
    ELSE IF event = ERROR_OCCURRED
    THEN handle_error(m, IF kwargs.error = Missing
                         THEN <<"Unknown error occurred">>
                         ELSE <<kwargs.error>>)
    ELSE handle_error(m, invalid_event_text(event, m.state))

\* handle_event without its try/except
handle_event_uncaught(m, event, kwargs, env) ==
    handle_event_try(m, event, kwargs, env)

handle_event(m, event, kwargs, env) ==
    Except(handle_event_try(m, event, kwargs, env), <<>>)

----------------------------------------------------------------------------
(* The state machine driven through handle_event by any caller *)

\* **kwargs: every key the handlers read, Missing when the caller passes none
NoKwargs ==
    [user_request |-> Missing, choice |-> Missing, feedback |-> Missing,
     confirm |-> Missing, error |-> Missing]

\* a handle_event call: its arguments, the state it found the machine in, the
\* requests it handed to generate_plan, the exception it caught and the
\* exception that left it
NoCall ==
    [event |-> "", kwargs |-> NoKwargs, from |-> "", handed |-> <<>>,
     raised |-> <<>>, exc |-> <<>>]

\* the goal list, feedback history and original request, as a REJECT choice
\* found them
Snapshot(m) ==
    [goals |-> m.goals, feedback_history |-> m.feedback_history,
     original_request |-> m.original_request]
NoSnapshot ==
    [goals |-> <<>>, feedback_history |-> <<>>, original_request |-> None]

\* What has been submitted: the request of the last PLAN_CREATED handled in
\* CREATING_GOALS, the feedback texts handled in AWAITING_FEEDBACK since then,
\* and, while a rejection awaits its confirmation, what the REJECT choice found.
NextHist(m, event, kwargs) ==
    IF m.state = CREATING_GOALS /\ event = PLAN_CREATED
           /\ kwargs.user_request # Missing
    THEN [hist EXCEPT !.request = kwargs.user_request, !.feedback = <<>>]
    ELSE IF m.state = AWAITING_FEEDBACK /\ event = FEEDBACK_PROVIDED
           /\ kwargs.feedback # Missing
    THEN [hist EXCEPT !.feedback = Append(@, kwargs.feedback)]
    ELSE IF m.state = REVIEWING_GOALS /\ event = REVIEW_CHOICE_MADE
           /\ kwargs.choice = REJECT
    THEN [hist EXCEPT !.before_reject = Snapshot(m)]
    ELSE IF m.state = CONFIRMING_REJECTION
    THEN IF handle_event(m, event, kwargs, NoEnv).m.state = CONFIRMING_REJECTION
         THEN hist
         ELSE [hist EXCEPT !.before_reject = NoSnapshot]
    ELSE hist

\* One call of handle_event on the machine as m describes it
HandleOn(m, event, kwargs, env) ==
    LET o == handle_event(m, event, kwargs, env) IN
    /\ state' = o.m.state
    /\ goals' = o.m.goals
    /\ error' = o.m.error
    /\ feedback_history' = o.m.feedback_history
    /\ original_request' = o.m.original_request
    /\ result' = o.result
    /\ call' = [event |-> event, kwargs |-> kwargs, from |-> m.state,
                handed |-> o.handed, raised |-> o.raised, exc |-> o.exc]
    /\ hist' = NextHist(m, event, kwargs)

\* One call of handle_event on the machine
Handle(event, kwargs, env) == HandleOn(Machine, event, kwargs, env)

\* the plans the plan-generation service may answer with
Plans == PlanData(MaxGoals, MaxDeps)

\* the collaborators' answers to a call that plans: _handle_plan_creation
\* captures once, _handle_plan_feedback captures a second time unless the first
\* capture raised
CreationEnvs == {e \in Envs(Plans) : e.recapture = CaptureOk}
FeedbackEnvs ==
    {e \in Envs(Plans) : e.capture = CaptureRaises => e.recapture = CaptureOk}

MachineInit ==
    /\ state = CREATING_GOALS
    /\ goals = <<>>
    /\ error = None
    /\ feedback_history = <<>>
    /\ original_request = None
    /\ result = NoResult
    /\ call = NoCall
    /\ hist = [request |-> "", feedback |-> <<>>, before_reject |-> NoSnapshot]

ValIdle ==
    /\ val_goals = <<>>
    /\ val_answer = "unset"
    /\ val_step = <<>>
    /\ val_result = <<>>

\* on_steps_update has not been called
NoStepsUpdate == [steps |-> <<>>, current |-> -1]

\* on_goal_update has not been called
NoGoalUpdate == [index |-> -1, status |-> ""]

\* on_goal_update(current_goal)
GoalUpdate(status) == [index |-> current_goal_index, status |-> status]

\* no input is being handled, and no GoalExecutor exists (self.goal_executor =
\* None)
WorkerIdle ==
    /\ pc = "idle"
    /\ exc = ""
    /\ current_goal_index = 0
    /\ steps = <<>>
    /\ step_index = 0
    /\ depth = 0
    /\ caller = "controller"
    /\ returned = "none"
    /\ failures = 0
    /\ consultations = 0
    /\ steps_update = NoStepsUpdate
    /\ goal_update = NoGoalUpdate
    /\ active_thread = PyNone
    /\ workers = 0
    /\ rejected = FALSE
    /\ lock = PyNone
    /\ thread_lock = PyNone
    /\ ui_pc = "mainloop"

Init ==
    /\ MachineInit
    /\ ValIdle
    /\ WorkerIdle

PlanCreated ==
    /\ \E r \in Requests \cup {Missing},
          env \in IF state = CREATING_GOALS THEN CreationEnvs ELSE {NoEnv} :
           Handle(PLAN_CREATED, [NoKwargs EXCEPT !.user_request = r], env)
    /\ UNCHANGED <<vvars, xvars>>

ReviewChoiceMade ==
    /\ \E c \in ReviewChoice \cup {Missing, PyNone, Unrecognized} :
           Handle(REVIEW_CHOICE_MADE, [NoKwargs EXCEPT !.choice = c], NoEnv)
    /\ UNCHANGED <<vvars, xvars>>

FeedbackProvided ==
    /\ state = AWAITING_FEEDBACK => Len(feedback_history) < MaxFeedback
    /\ \E f \in Feedbacks \cup {Missing},
          env \in IF state = AWAITING_FEEDBACK THEN FeedbackEnvs ELSE {NoEnv} :
           Handle(FEEDBACK_PROVIDED, [NoKwargs EXCEPT !.feedback = f], env)
    /\ UNCHANGED <<vvars, xvars>>

ConfirmRejection ==
    /\ \E c \in ConfirmChoice \cup {Missing, PyNone, Unrecognized} :
           Handle(CONFIRM_REJECTION, [NoKwargs EXCEPT !.confirm = c], NoEnv)
    /\ UNCHANGED <<vvars, xvars>>

GoalsCompleted ==
    /\ Handle(GOALS_COMPLETED, NoKwargs, NoEnv)
    /\ UNCHANGED <<vvars, xvars>>

GoalsFailed ==
    /\ Handle(GOALS_FAILED, NoKwargs, NoEnv)
    /\ UNCHANGED <<vvars, xvars>>

ErrorOccurred ==
    /\ \E msg \in Messages \cup {Missing} :
           Handle(ERROR_OCCURRED, [NoKwargs EXCEPT !.error = msg], NoEnv)
    /\ UNCHANGED <<vvars, xvars>>

Next ==
    \/ PlanCreated
    \/ ReviewChoiceMade
    \/ FeedbackProvided
    \/ ConfirmRejection
    \/ GoalsCompleted
    \/ GoalsFailed
    \/ ErrorOccurred

Spec == Init /\ [][Next]_vars

----------------------------------------------------------------------------
(* validate_plan applied to the plans of a bounded set *)

ValInit ==
    /\ MachineInit
    /\ WorkerIdle
    /\ val_goals \in {generate_plan_goals(p) : p \in PlanData(ValMaxGoals, ValMaxDeps)}
    /\ val_answer = "unset"
    /\ val_step = <<>>
    /\ val_result = <<>>

Validate ==
    /\ val_answer = "unset"
    /\ val_answer' = IF validate_plan(val_goals) THEN "valid" ELSE "invalid"
    /\ UNCHANGED <<mvars, result, call, hist, val_goals, val_step, val_result,
                   xvars>>

ValNext == Validate

ValSpec == ValInit /\ [][ValNext]_vars

----------------------------------------------------------------------------
(* AutomationUI, ExcelLLMController and GoalExecutor. The UI thread runs      *)
(* _handle_input for every submitted text; a worker thread runs               *)
(* _run_callback, which calls _handle_user_input, which (after a review       *)
(* choice) calls execute_goals. The GoalExecutor works on the list object     *)
(* get_goals() returns, which is the machine's own goal list.                 *)

\* StepStatus (goal.py:18-24)
STEP_PENDING == "StepStatus.PENDING"
STEP_IN_PROGRESS == "StepStatus.IN_PROGRESS"
STEP_COMPLETED == "StepStatus.COMPLETED"
STEP_FAILED == "StepStatus.FAILED"
STEP_VALIDATION_FAILED == "StepStatus.VALIDATION_FAILED"

\* Step(...) with the dataclass default status (goal.py:26-37)
Step == [status |-> STEP_PENDING]

\* the texts a user submits; the UI strips them and drops empty ones
Inputs == {"y", "m", "n", "Y", "r1"}

\* Thread(target=self._run_callback, args=(text,))
Thread == "Thread"

\* text.lower() on the texts of Inputs
lower(text) == IF text = "Y" THEN "y" ELSE text

\* _map_review_input: mapping.get(text.lower())
map_review_input(text) ==
    CASE lower(text) = "y" -> ACCEPT
      [] lower(text) = "m" -> MODIFY
      [] lower(text) = "n" -> REJECT
      [] OTHER -> PyNone

\* _map_confirm_input: mapping.get(text.lower())
map_confirm_input(text) ==
    CASE lower(text) = "y" -> YES
      [] lower(text) = "n" -> NO
      [] OTHER -> PyNone

\* the exceptions raised inside execute_current_goal's try block
StateErrorText == "Failed to get Excel window state"
StepJsonErrorText == "Failed to parse LLM response as JSON"
StepFieldErrorText == "Missing required field in step data"
\* what open() or yaml.dump raises in save_debug_info, which has no handler for
\* it
DebugWriteErrorText == "debug record not written"

\* the validation criteria a planned step carries: none, an empty dict, or
\* criteria; the application and pointer states validation is given
Criteria == {PyNone, "{}", "criteria"}
ExcelStates == {"sheet1", "sheet2", "dialog"}
MouseStates == {"A1", "B2", "Mouse position: Outside Excel window"}

\* validate_step_result with the plan-generation service consulted whenever
\* criteria are present
validate_step_result_consulting(criteria, excel_state, mouse_state) ==
    IF criteria \in {PyNone, "{}"}
    THEN [success |-> TRUE, error |-> None, consulted |-> FALSE]
    ELSE [success |-> excel_state # "dialog", consulted |-> TRUE,
          error |-> IF excel_state # "dialog" THEN None
                    ELSE Some(<<"validation failed">>)]

\* validate_step_result: (True, None) without criteria, and (True, None) again
\* before the service would be consulted
validate_step_result(criteria, excel_state, mouse_state) ==
    IF criteria \in {PyNone, "{}"}
    THEN [success |-> TRUE, error |-> None, consulted |-> FALSE]
    ELSE [success |-> TRUE, error |-> None, consulted |-> FALSE]

\* the goal list with the status of its last goal set
WithGoalStatus_last(status) ==
    [goals EXCEPT ![Len(goals)].status = status]

\* self.goals[:self.current_goal_index], the completed goals handed to
\* plan_goal_execution
completed_goals == SubSeq(goals, 1, current_goal_index)

\* the goal list with the current goal's status set
WithGoalStatus(status) ==
    [goals EXCEPT ![current_goal_index + 1].status = status]

\* the step list with the current step's status set
WithStepStatus(status) == [steps EXCEPT ![step_index].status = status]

\* GoalExecutor(...): a new executor for the list
InstantiateGoalExecutor ==
    /\ current_goal_index' = 0
    /\ steps' = <<>>
    /\ step_index' = 0
    /\ depth' = 0

\* a call of execute_goals begins
CallBegins ==
    /\ returned' = "none"
    /\ failures' = 0
    /\ consultations' = 0
    /\ steps_update' = NoStepsUpdate
    /\ goal_update' = NoGoalUpdate

\* self.active_thread and self.active_thread.is_alive(); _run_callback unsets
\* active_thread before its thread ends
worker_running_never(thread) == FALSE
worker_running(thread) == thread # PyNone

\* _handle_input on the UI thread: a text is turned away with 'Please wait for
\* current operation to complete' while a worker is alive, and starts a worker
\* otherwise. The text the worker is started with is read by nothing before
\* _handle_user_input runs, where it is drawn.
HandleInput ==
    /\ IF worker_running(active_thread)
       THEN /\ rejected' = TRUE
            /\ UNCHANGED <<pc, active_thread, workers>>
       ELSE /\ active_thread' = Thread
            /\ workers' = workers + 1
            /\ rejected' = FALSE
            /\ pc' = "callback"
    /\ UNCHANGED <<mvars, result, call, hist, vvars, lvars, exc, evars, caller,
                   steps_update, goal_update, gvars>>

\* _run_callback without its finally: the thread ends and active_thread keeps
\* naming it
WorkerEnds_keeps_thread ==
    /\ thread_lock = PyNone
    /\ pc' = "idle"
    /\ active_thread' = active_thread
    /\ workers' = workers - 1
    /\ rejected' = FALSE

\* _run_callback's finally, as the worker's callback ends: with
\* self.thread_lock, active_thread is unset
WorkerEnds ==
    /\ thread_lock = PyNone
    /\ pc' = "idle"
    /\ active_thread' = PyNone
    /\ workers' = workers - 1
    /\ rejected' = FALSE

\* _handle_user_input returns without calling the machine
OnlyLogs ==
    /\ WorkerEnds
    /\ UNCHANGED <<mvars, result, call, hist, exc, evars, caller,
                   steps_update, goal_update, gvars>>

\* _handle_user_input on the worker thread, up to the point where it returns
\* or calls execute_goals
HandleUserInput ==
    /\ pc = "callback"
    /\ \E text \in Inputs :
        CASE state = REVIEWING_GOALS ->
                IF map_review_input(text) = PyNone
                THEN OnlyLogs
                ELSE /\ Handle(REVIEW_CHOICE_MADE,
                               [NoKwargs EXCEPT !.choice = map_review_input(text)],
                               NoEnv)
                     /\ InstantiateGoalExecutor
                     /\ CallBegins
                     /\ pc' = "execute_goals"
                     /\ UNCHANGED <<exc, caller, uvars>>
          [] state = AWAITING_FEEDBACK ->
                /\ Len(feedback_history) < MaxFeedback
                /\ \E env \in FeedbackEnvs :
                       Handle(FEEDBACK_PROVIDED,
                              [NoKwargs EXCEPT !.feedback = text], env)
                /\ WorkerEnds
                /\ UNCHANGED <<exc, evars, caller, steps_update, goal_update, gvars>>
          [] state = CONFIRMING_REJECTION ->
                IF map_confirm_input(text) = PyNone
                THEN OnlyLogs
                ELSE /\ Handle(CONFIRM_REJECTION,
                               [NoKwargs EXCEPT !.confirm = map_confirm_input(text)],
                               NoEnv)
                     /\ WorkerEnds
                     /\ UNCHANGED <<exc, evars, caller, steps_update, goal_update, gvars>>
          [] state = CREATING_GOALS ->
                /\ \E env \in CreationEnvs :
                       Handle(PLAN_CREATED,
                              [NoKwargs EXCEPT !.user_request = text], env)
                /\ WorkerEnds
                /\ UNCHANGED <<exc, evars, caller, steps_update, goal_update, gvars>>
          [] OTHER ->
                \* FAILED, and case _: a message is logged
                OnlyLogs
    /\ UNCHANGED <<vvars, lvars>>

\* execute_goals ends and the controller sends GOALS_COMPLETED whatever the
\* outcome was
Return_always_completed(m, value, consulted) ==
    /\ returned' = value
    /\ depth' = 0
    /\ IF caller = "controller"
       THEN /\ HandleOn(m, GOALS_COMPLETED,
                        [NoKwargs EXCEPT !.user_request = ""], NoEnv)
            /\ WorkerEnds
            /\ exc' = ""
            /\ steps' = <<>>
            /\ step_index' = 0
            /\ failures' = 0
            /\ consultations' = 0
            /\ steps_update' = NoStepsUpdate
            /\ goal_update' = NoGoalUpdate
       ELSE /\ goals' = m.goals
            /\ pc' = "done"
            /\ consultations' = consultations + consulted
            /\ goal_update' =
                  IF m.goals = goals THEN goal_update
                  ELSE GoalUpdate(m.goals[current_goal_index + 1].status)
            /\ UNCHANGED <<state, error, feedback_history, original_request,
                           result, call, hist, exc, steps, step_index,
                           failures, steps_update, uvars>>

\* execute_goals ends with value ("true", "false" or "raised"), the executor
\* having left the machine's fields as m, and on_step_failure having been
\* called consulted times in this step. Every frame of execute_current_goal
\* is gone. The controller sends GOALS_COMPLETED, GOALS_FAILED or (in its
\* except block) ERROR_OCCURRED with str(e), and its callback ends, and with it
\* the last of the call: its step list and what is counted of it. Any other
\* caller has the value, and the call's step list and counts until it calls
\* again. Where the executor changed the current goal's status on its way out,
\* on_goal_update was called with the goal.
Return(m, value, consulted) ==
    /\ returned' = value
    /\ depth' = 0
    /\ IF caller = "controller"
       THEN /\ HandleOn(m,
                        CASE value = "true" -> GOALS_COMPLETED
                          [] value = "false" -> GOALS_FAILED
                          [] OTHER -> ERROR_OCCURRED,
                        IF value = "raised"
                        THEN [NoKwargs EXCEPT !.error = exc]
                        ELSE [NoKwargs EXCEPT !.user_request = ""],
                        NoEnv)
            /\ WorkerEnds
            /\ exc' = ""
            /\ steps' = <<>>
            /\ step_index' = 0
            /\ failures' = 0
            /\ consultations' = 0
            /\ steps_update' = NoStepsUpdate
            /\ goal_update' = NoGoalUpdate
       ELSE /\ goals' = m.goals
            /\ pc' = "done"
            /\ consultations' = consultations + consulted
            /\ goal_update' =
                  IF m.goals = goals THEN goal_update
                  ELSE GoalUpdate(m.goals[current_goal_index + 1].status)
            /\ UNCHANGED <<state, error, feedback_history, original_request,
                           result, call, hist, exc, steps, step_index,
                           failures, steps_update, uvars>>

\* execute_goals' loop test; with a goal left, execute_current_goal marks it
\* IN_PROGRESS; with none left, execute_goals returns True
ExecuteGoals ==
    /\ pc = "execute_goals"
    /\ IF current_goal_index < Len(goals)
       THEN /\ goals' = WithGoalStatus(IN_PROGRESS)
            /\ goal_update' = GoalUpdate(IN_PROGRESS)
            /\ pc' = "plan"
            /\ UNCHANGED <<state, error, feedback_history, original_request,
                           result, call, hist, exc, steps, step_index, depth,
                           steps_update, gvars, uvars>>
       ELSE Return(Machine, "true", 0)
    /\ UNCHANGED <<vvars, lvars, current_goal_index, caller>>

\* get_current_state and plan_goal_execution
PlanGoalExecution ==
    /\ pc = "plan"
    /\ \/ \E n \in 0..MaxSteps :
            /\ steps' = [i \in 1..n |-> Step]
            /\ step_index' = 1
            /\ steps_update' = [steps |-> steps', current |-> 0]
            /\ pc' = "step"
            /\ UNCHANGED exc
       \/ \E e \in {StateErrorText, StepJsonErrorText, StepFieldErrorText,
                   DebugWriteErrorText} :
            /\ exc' = e
            /\ pc' = "raise"
            /\ UNCHANGED <<steps, step_index, steps_update>>
    /\ UNCHANGED <<mvars, result, call, hist, vvars, lvars, current_goal_index, depth,
                   caller, goal_update, gvars, uvars>>

\* the for loop with a step left: the step is marked IN_PROGRESS and the state
\* is captured
BeginStep ==
    /\ pc = "step"
    /\ step_index <= Len(steps)
    /\ steps' = WithStepStatus(STEP_IN_PROGRESS)
    /\ steps_update' = [steps |-> steps', current |-> step_index]
    /\ \/ pc' = "execute_step" /\ UNCHANGED exc
       \/ pc' = "raise" /\ exc' \in {StateErrorText, DebugWriteErrorText}
    /\ UNCHANGED <<mvars, result, call, hist, vvars, lvars, current_goal_index,
                   step_index, depth, caller, goal_update, gvars, uvars>>

\* execute_step with a failed step marked FAILED and passed over: the loop goes
\* on with the next step and on_step_failure is not called
ExecuteStep_skips ==
    /\ pc = "execute_step"
    /\ \/ /\ steps' = WithStepStatus(STEP_COMPLETED)
          /\ pc' = "validate"
          /\ UNCHANGED <<failures, steps_update, step_index>>
       \/ /\ steps' = WithStepStatus(STEP_FAILED)
          /\ steps_update' = [steps |-> steps', current |-> step_index]
          /\ step_index' = step_index + 1
          /\ pc' = "step"
          /\ failures' = failures + 1
    /\ UNCHANGED <<mvars, result, call, hist, vvars, lvars, exc, current_goal_index,
                   depth, caller, goal_update, returned, consultations, uvars>>

\* StepExecutor.execute_step (start(), then complete() or fail()), and on
\* failure the FAILED mark and on_steps_update of execute_current_goal
ExecuteStep ==
    /\ pc = "execute_step"
    /\ \/ /\ steps' = WithStepStatus(STEP_COMPLETED)
          /\ pc' = "validate"
          /\ UNCHANGED <<failures, steps_update>>
       \/ /\ steps' = WithStepStatus(STEP_FAILED)
          /\ steps_update' = [steps |-> steps', current |-> step_index]
          /\ pc' = "on_step_failure"
          /\ failures' = failures + 1
    /\ UNCHANGED <<mvars, result, call, hist, vvars, lvars, exc, current_goal_index,
                   step_index, depth, caller, goal_update, returned, consultations, uvars>>

\* after a successful step: capture and debug record, validate_step_result,
\* then either the COMPLETED mark with the capture and debug record that follow
\* it, or the FAILED mark
ValidateStep ==
    /\ pc = "validate"
    /\ \/ \E criteria \in Criteria, excel_state \in ExcelStates,
             mouse_state \in MouseStates :
            IF validate_step_result(criteria, excel_state, mouse_state).success
            THEN /\ steps' = WithStepStatus(STEP_COMPLETED)
                 /\ steps_update' = [steps |-> steps', current |-> step_index]
                 /\ \/ /\ step_index' = step_index + 1
                       /\ pc' = "step"
                       /\ UNCHANGED exc
                    \/ /\ exc' \in {StateErrorText, DebugWriteErrorText}
                       /\ pc' = "raise"
                       /\ UNCHANGED step_index
                 /\ UNCHANGED failures
            ELSE /\ steps' = WithStepStatus(STEP_FAILED)
                 /\ steps_update' = [steps |-> steps', current |-> step_index]
                 /\ pc' = "on_step_failure"
                 /\ failures' = failures + 1
                 /\ UNCHANGED <<exc, step_index>>
       \/ /\ exc' \in {StateErrorText, DebugWriteErrorText}
          /\ pc' = "raise"
          /\ UNCHANGED <<steps, step_index, failures, steps_update>>
    /\ UNCHANGED <<mvars, result, call, hist, vvars, lvars, current_goal_index, depth,
                   caller, goal_update, returned, consultations, uvars>>

\* on_step_failure with a True answer taken as leave to go on with the next
\* step of the list
OnStepFailure_resumes ==
    /\ pc = "on_step_failure"
    /\ \/ /\ depth < MaxReplans
          /\ consultations' = consultations + 1
          /\ depth' = depth + 1
          /\ step_index' = step_index + 1
          /\ pc' = "step"
          /\ UNCHANGED <<mvars, result, call, hist, exc, returned, steps,
                         steps_update, goal_update, failures, uvars>>
       \/ Return(Machine, "false", 1)
    /\ UNCHANGED <<vvars, lvars, current_goal_index, caller>>

\* on_step_failure with the goal marked FAILED before a False answer ends the
\* run
OnStepFailure_fails_goal ==
    /\ pc = "on_step_failure"
    /\ \/ /\ depth < MaxReplans
          /\ consultations' = consultations + 1
          /\ depth' = depth + 1
          /\ goals' = WithGoalStatus(IN_PROGRESS)
          /\ goal_update' = GoalUpdate(IN_PROGRESS)
          /\ pc' = "plan"
          /\ UNCHANGED <<state, error, feedback_history, original_request,
                         result, call, hist, exc, returned, steps, step_index,
                         steps_update, failures, uvars>>
       \/ Return([Machine EXCEPT !.goals = WithGoalStatus(GOAL_FAILED)],
                 "false", 1)
    /\ UNCHANGED <<vvars, lvars, current_goal_index, caller>>

\* on_step_failure with a False answer taken as leave to give the goal up:
\* current_goal_index advances before execute_goals returns False
OnStepFailure_gives_up_goal ==
    /\ pc = "on_step_failure"
    /\ \/ /\ depth < MaxReplans
          /\ consultations' = consultations + 1
          /\ depth' = depth + 1
          /\ goals' = WithGoalStatus(IN_PROGRESS)
          /\ goal_update' = GoalUpdate(IN_PROGRESS)
          /\ pc' = "plan"
          /\ UNCHANGED <<state, error, feedback_history, original_request,
                         result, call, hist, exc, returned, steps, step_index,
                         steps_update, failures, current_goal_index, uvars>>
       \/ /\ Return(Machine, "false", 1)
          /\ current_goal_index' = current_goal_index + 1
    /\ UNCHANGED <<vvars, lvars, caller>>

\* on_step_failure: True restarts execute_current_goal in a new frame, whose
\* result every frame below returns; False makes execute_goals return False
OnStepFailure ==
    /\ pc = "on_step_failure"
    /\ \/ /\ depth < MaxReplans
          /\ consultations' = consultations + 1
          /\ depth' = depth + 1
          /\ goals' = WithGoalStatus(IN_PROGRESS)
          /\ goal_update' = GoalUpdate(IN_PROGRESS)
          /\ pc' = "plan"
          /\ UNCHANGED <<state, error, feedback_history, original_request,
                         result, call, hist, exc, returned, steps, step_index,
                         steps_update, failures, uvars>>
       \/ Return(Machine, "false", 1)
    /\ UNCHANGED <<vvars, lvars, current_goal_index, caller>>

\* the end of execute_current_goal without the advance of current_goal_index
CompleteGoal_stays ==
    /\ pc = "step"
    /\ step_index > Len(steps)
    /\ goals' = WithGoalStatus(COMPLETED)
    /\ goal_update' = GoalUpdate(COMPLETED)
    /\ \/ /\ depth' = 0
          /\ pc' = "execute_goals"
          /\ UNCHANGED exc
       \/ /\ exc' \in {StateErrorText, DebugWriteErrorText}
          /\ pc' = "raise"
          /\ UNCHANGED depth
    /\ UNCHANGED <<state, error, feedback_history, original_request, result,
                   call, hist, vvars, lvars, current_goal_index, steps, step_index,
                   caller, steps_update, gvars, uvars>>

\* the end of execute_current_goal with current_goal_index advanced once by
\* every frame that returns
CompleteGoal_every_frame ==
    /\ pc = "step"
    /\ step_index > Len(steps)
    /\ goals' = WithGoalStatus(COMPLETED)
    /\ goal_update' = GoalUpdate(COMPLETED)
    /\ \/ /\ current_goal_index' = current_goal_index + 1 + depth
          /\ depth' = 0
          /\ pc' = "execute_goals"
          /\ UNCHANGED exc
       \/ /\ exc' \in {StateErrorText, DebugWriteErrorText}
          /\ pc' = "raise"
          /\ UNCHANGED <<current_goal_index, depth>>
    /\ UNCHANGED <<state, error, feedback_history, original_request, result,
                   call, hist, vvars, lvars, steps, step_index, caller,
                   steps_update, gvars, uvars>>

\* the for loop is exhausted: the goal is marked COMPLETED, the state is
\* captured, current_goal_index advances and every frame returns True
CompleteGoal ==
    /\ pc = "step"
    /\ step_index > Len(steps)
    /\ goals' = WithGoalStatus(COMPLETED)
    /\ goal_update' = GoalUpdate(COMPLETED)
    /\ \/ /\ current_goal_index' = current_goal_index + 1
          /\ depth' = 0
          /\ pc' = "execute_goals"
          /\ UNCHANGED exc
       \/ /\ exc' \in {StateErrorText, DebugWriteErrorText}
          /\ pc' = "raise"
          /\ UNCHANGED <<current_goal_index, depth>>
    /\ UNCHANGED <<state, error, feedback_history, original_request, result,
                   call, hist, vvars, lvars, steps, step_index, caller, steps_update,
                   gvars, uvars>>

\* the exception leaves execute_goals with the goal as it was
ExceptReraise_unmarked ==
    /\ pc = "raise"
    /\ Return(Machine, "raised", 0)
    /\ UNCHANGED <<vvars, lvars, current_goal_index, caller>>

\* except Exception as e in every frame of execute_current_goal: the goal is
\* marked FAILED, on_goal_update is called and e is raised again, out of
\* execute_goals
ExceptReraise ==
    /\ pc = "raise"
    /\ Return([Machine EXCEPT !.goals = WithGoalStatus(GOAL_FAILED)], "raised",
              0)
    /\ UNCHANGED <<vvars, lvars, current_goal_index, caller>>

CtlNext ==
    \/ HandleInput
    \/ HandleUserInput
    \/ ExecuteGoals
    \/ PlanGoalExecution
    \/ BeginStep
    \/ ExecuteStep
    \/ ValidateStep
    \/ OnStepFailure
    \/ CompleteGoal
    \/ ExceptReraise

CtlSpec == Init /\ [][CtlNext]_vars

\* the steps of the worker thread
WorkerNext ==
    \/ HandleUserInput
    \/ ExecuteGoals
    \/ PlanGoalExecution
    \/ BeginStep
    \/ ExecuteStep
    \/ ValidateStep
    \/ OnStepFailure
    \/ CompleteGoal
    \/ ExceptReraise

\* the worker thread keeps running (the collaborators and the failure-policy
\* dialog answer), and the user keeps submitting texts
FairCtlSpec == CtlSpec /\ WF_vars(HandleInput) /\ WF_vars(WorkerNext)

----------------------------------------------------------------------------
(* AutomationUI's locks: self.lock is taken by update_goals, update_tasks,    *)
(* log_message and ask_yes_no, self.thread_lock by _handle_input and by       *)
(* _run_callback's finally. A display update takes and releases self.lock     *)
(* within the step that makes it; ask_yes_no keeps it from before the dialog  *)
(* is shown until it has been answered.                                       *)

\* _handle_input on the UI thread, with self.thread_lock: the rejection message
\* waits in log_message while another thread holds self.lock
HandleInputWaiting ==
    /\ ui_pc = "mainloop"
    /\ thread_lock = PyNone
    /\ IF worker_running(active_thread) /\ lock # PyNone
       THEN /\ thread_lock' = "ui"
            /\ ui_pc' = "log_message"
            /\ UNCHANGED <<mvars, result, call, hist, vvars, lock, pc, exc,
                           evars, caller, steps_update, goal_update, gvars,
                           uvars>>
       ELSE HandleInput

\* log_message on the UI thread gets self.lock, writes the rejection message
\* and releases it; _handle_input returns and releases self.thread_lock
LogMessageAcquires ==
    /\ ui_pc = "log_message"
    /\ lock = PyNone
    /\ rejected' = TRUE
    /\ thread_lock' = PyNone
    /\ ui_pc' = "mainloop"
    /\ UNCHANGED <<mvars, result, call, hist, vvars, lock, pc, exc, evars,
                   caller, steps_update, goal_update, gvars, active_thread,
                   workers>>

\* _handle_step_failure on the worker thread: log_message('Step failed: ...'),
\* then ask_yes_no takes self.lock and calls messagebox.askyesno
AskYesNo ==
    /\ pc = "on_step_failure"
    /\ lock = PyNone
    /\ lock' = "worker"
    /\ pc' = "dialog"
    /\ UNCHANGED <<mvars, result, call, hist, vvars, thread_lock, ui_pc, exc,
                   evars, caller, steps_update, goal_update, gvars, uvars>>

\* messagebox.askyesno returns and ask_yes_no releases self.lock
AskYesNoReturns ==
    /\ pc = "dialog"
    /\ lock' = PyNone
    /\ pc' = "answered"
    /\ UNCHANGED <<mvars, result, call, hist, vvars, thread_lock, ui_pc, exc,
                   evars, caller, steps_update, goal_update, gvars, uvars>>

\* on_step_failure has returned the answer: True restarts execute_current_goal,
\* False makes execute_goals return False
StepFailureAnswered ==
    /\ pc = "answered"
    /\ \/ /\ depth < MaxReplans
          /\ consultations' = consultations + 1
          /\ depth' = depth + 1
          /\ goals' = WithGoalStatus(IN_PROGRESS)
          /\ goal_update' = GoalUpdate(IN_PROGRESS)
          /\ pc' = "plan"
          /\ UNCHANGED <<state, error, feedback_history, original_request,
                         result, call, hist, exc, returned, steps, step_index,
                         steps_update, failures, uvars>>
       \/ Return(Machine, "false", 1)
    /\ UNCHANGED <<vvars, lvars, current_goal_index, caller>>

UiLockNext ==
    \/ HandleInputWaiting
    \/ LogMessageAcquires
    \/ HandleUserInput
    \/ ExecuteGoals
    \/ PlanGoalExecution
    \/ BeginStep
    \/ ExecuteStep
    \/ ValidateStep
    \/ AskYesNo
    \/ AskYesNoReturns
    \/ StepFailureAnswered
    \/ CompleteGoal
    \/ ExceptReraise

UiLockSpec == Init /\ [][UiLockNext]_vars

----------------------------------------------------------------------------
(* GoalExecutor called by any caller: an executor is constructed on a goal    *)
(* list and execute_goals is called on it, again and again                    *)

\* the statuses the goals of the list handed to GoalExecutor(...) may have
ExecStatuses == {PENDING, IN_PROGRESS, COMPLETED, GOAL_FAILED}

\* the goal lists handed to GoalExecutor(...)
ExecGoalLists ==
    LET valid == {gs \in {generate_plan_goals(p) : p \in Plans} : validate_plan(gs)}
    IN  UNION {{[i \in DOMAIN gs |-> [gs[i] EXCEPT !.status = st[i]]] :
                    st \in [DOMAIN gs -> ExecStatuses]} : gs \in valid}

ExecInit ==
    /\ state = GOALS_ACCEPTED
    /\ goals \in ExecGoalLists
    /\ error = None
    /\ feedback_history = <<>>
    /\ original_request = None
    /\ result = NoResult
    /\ call = NoCall
    /\ hist = [request |-> "", feedback |-> <<>>, before_reject |-> NoSnapshot]
    /\ ValIdle
    /\ pc = "execute_goals"
    /\ exc = ""
    /\ current_goal_index = 0
    /\ steps = <<>>
    /\ step_index = 0
    /\ depth = 0
    /\ caller = "direct"
    /\ returned = "none"
    /\ failures = 0
    /\ consultations = 0
    /\ steps_update = NoStepsUpdate
    /\ goal_update = NoGoalUpdate
    /\ active_thread = PyNone
    /\ workers = 0
    /\ rejected = FALSE
    /\ lock = PyNone
    /\ thread_lock = PyNone
    /\ ui_pc = "mainloop"

\* execute_goals called once more and starting over at the first goal
CallExecuteGoals_from_start ==
    /\ pc = "done"
    /\ pc' = "execute_goals"
    /\ CallBegins
    /\ exc' = ""
    /\ steps' = <<>>
    /\ step_index' = 0
    /\ depth' = 0
    /\ current_goal_index' = 0
    /\ UNCHANGED <<mvars, result, call, hist, vvars, lvars, caller, uvars>>

\* the caller calls execute_goals on the same executor once more
CallExecuteGoals ==
    /\ pc = "done"
    /\ pc' = "execute_goals"
    /\ CallBegins
    /\ exc' = ""
    /\ steps' = <<>>
    /\ step_index' = 0
    /\ depth' = 0
    /\ UNCHANGED <<mvars, result, call, hist, vvars, lvars, current_goal_index,
                   caller, uvars>>

ExecNext ==
    \/ CallExecuteGoals
    \/ ExecuteGoals
    \/ PlanGoalExecution
    \/ BeginStep
    \/ ExecuteStep
    \/ ValidateStep
    \/ OnStepFailure
    \/ CompleteGoal
    \/ ExceptReraise

ExecSpec == ExecInit /\ [][ExecNext]_vars

\* the thread inside execute_goals keeps running: the collaborators and the
\* failure policy answer
FairExecSpec == ExecSpec /\ WF_vars(ExecNext)

\* goal_executor.py:375-392 on an executor whose validate_step_result answers
\* either way. The method is looked up on self; the one GoalExecutor defines
\* answers True only, so the not-success branch of the loop is run only for an
\* executor that replaces the method.
ValidateStepEitherWay ==
    /\ pc = "validate"
    /\ \/ \E success \in BOOLEAN :
            IF success
            THEN /\ steps' = WithStepStatus(STEP_COMPLETED)
                 /\ steps_update' = [steps |-> steps', current |-> step_index]
                 /\ \/ /\ step_index' = step_index + 1
                       /\ pc' = "step"
                       /\ UNCHANGED exc
                    \/ /\ exc' \in {StateErrorText, DebugWriteErrorText}
                       /\ pc' = "raise"
                       /\ UNCHANGED step_index
                 /\ UNCHANGED failures
            ELSE /\ steps' = WithStepStatus(STEP_FAILED)
                 /\ steps_update' = [steps |-> steps', current |-> step_index]
                 /\ pc' = "on_step_failure"
                 /\ failures' = failures + 1
                 /\ UNCHANGED <<exc, step_index>>
       \/ /\ exc' \in {StateErrorText, DebugWriteErrorText}
          /\ pc' = "raise"
          /\ UNCHANGED <<steps, step_index, failures, steps_update>>
    /\ UNCHANGED <<mvars, result, call, hist, vvars, lvars, current_goal_index, depth,
                   caller, goal_update, returned, consultations, uvars>>

EitherWayNext ==
    \/ CallExecuteGoals
    \/ ExecuteGoals
    \/ PlanGoalExecution
    \/ BeginStep
    \/ ExecuteStep
    \/ ValidateStepEitherWay
    \/ OnStepFailure
    \/ CompleteGoal
    \/ ExceptReraise

EitherWaySpec == ExecInit /\ [][EitherWayNext]_vars

----------------------------------------------------------------------------
(* validate_step_result applied to the steps and states of a bounded set *)

StepValInit ==
    /\ MachineInit
    /\ WorkerIdle
    /\ val_goals = <<>>
    /\ val_answer = "unset"
    /\ val_step \in [validation_criteria : Criteria,
                     status : {STEP_PENDING, STEP_IN_PROGRESS, STEP_COMPLETED,
                               STEP_FAILED, STEP_VALIDATION_FAILED},
                     excel_state : ExcelStates, mouse_state : MouseStates]
    /\ val_result = <<>>

ValidateStepResult ==
    /\ val_result = <<>>
    /\ val_result' = <<validate_step_result(val_step.validation_criteria,
                                            val_step.excel_state,
                                            val_step.mouse_state)>>
    /\ UNCHANGED <<mvars, result, call, hist, val_goals, val_answer, val_step,
                   xvars>>

StepValNext == ValidateStepResult

StepValSpec == StepValInit /\ [][StepValNext]_vars

----------------------------------------------------------------------------
(* StepExecutor.execute_step applied to the steps of a bounded set, with the *)
(* automation primitives answering in every way they can                     *)

\* the keys of action_handlers
Vocabulary ==
    {"move_to_element", "left_click", "right_click", "double_left_click",
     "type_text", "press_key_combo", "scroll_up", "scroll_down",
     "drag_to_element"}

\* handler(step.parameters) for an action of the vocabulary: whether it raised
\* and with what text, which primitive it called (PyNone: none) and what the
\* primitive answered. params is None (dict is FALSE) or a dict given by what
\* params.get(name) returns for each name (Missing: no such key); a value is
\* falsy when it is absent, None, 0 or ''. primitive is "true" or "false" (the
\* value the primitive returns) or "raises".
handler(action, params, primitive) ==
    LET falsy(v) == v \in {Missing, PyNone, "int:0", "str:"}
        int_ok(v) == v \in {"int:0", "int:7", "str:7"}
        raised(text) == [raised |-> TRUE, text |-> text, invoked |-> PyNone,
                         reported |-> PyNone]
        called == [raised |-> primitive = "raises",
                   text |-> IF primitive = "raises" THEN <<"primitive error">>
                            ELSE <<>>,
                   invoked |-> action, reported |-> primitive]
        no_get == raised(<<"'NoneType' object has no attribute 'get'">>)
    IN  CASE action \in {"left_click", "right_click", "double_left_click"} ->
                called
          [] action \in {"scroll_up", "scroll_down"} ->
                IF ~params.dict THEN no_get ELSE called
          [] action \in {"move_to_element", "drag_to_element"} ->
                IF ~params.dict THEN no_get
                ELSE IF falsy(params.element_id)
                THEN raised(<<"element_id is required for ", action>>)
                ELSE IF ~int_ok(params.element_id)
                THEN raised(<<"element_id must be a valid integer">>)
                ELSE called
          [] action = "type_text" ->
                IF ~params.dict THEN no_get
                ELSE IF falsy(params.text)
                THEN raised(<<"text is required for type_text">>)
                ELSE called
          [] action = "press_key_combo" ->
                IF ~params.dict THEN no_get
                ELSE IF falsy(params.key)
                THEN raised(<<"key is required for press_key_combo">>)
                ELSE called

\* what execute_step returns (success, error), what it leaves in the step
\* (status, error_message), what it called, and whether an exception left it
StepOutcome(ok, message, h, escaped) ==
    [success |-> ok, error |-> message,
     status |-> IF ok THEN STEP_COMPLETED ELSE STEP_FAILED,
     error_message |-> message,
     invoked |-> h.invoked, reported |-> h.reported,
     raised |-> escaped]

\* no primitive was called
NotCalled == [invoked |-> PyNone, reported |-> PyNone]

\* execute_step without the try blocks: what a handler raises leaves it, with
\* the step IN_PROGRESS
execute_step_uncaught(step, env) ==
    IF step.action \notin Vocabulary
    THEN StepOutcome(FALSE, Some(<<"Unknown action: ", step.action>>),
                     NotCalled, FALSE)
    ELSE LET h == handler(step.action, step.parameters, env.primitive) IN
         IF h.raised
         THEN [StepOutcome(FALSE, None, h, TRUE)
                 EXCEPT !.status = STEP_IN_PROGRESS]
         ELSE StepOutcome(TRUE, None, h, FALSE)

\* raise_application with what lib.raiseApplication raises leaving it
raise_application_uncaught(lib) == lib

\* raise_application (utils.py:49-53): what lib.raiseApplication returns
\* ("true" or "false"), and False when it raises
raise_application(lib) == IF lib = "raises" THEN "false" ELSE lib

\* execute_step: raise_application (its value is dropped), step.start(), the
\* handler looked up and called, then step.complete(); step.fail(message)
\* wherever it returns (False, message). Both try blocks catch Exception.
execute_step(step, env) ==
    IF raise_application(env.raise_application) = "raises"
    THEN StepOutcome(FALSE,
                     Some(<<"Step execution failed: ", "application error">>),
                     NotCalled, FALSE)
    ELSE IF step.action \notin Vocabulary
    THEN StepOutcome(FALSE, Some(<<"Unknown action: ", step.action>>),
                     NotCalled, FALSE)
    ELSE LET h == handler(step.action, step.parameters, env.primitive) IN
         IF h.raised
         THEN StepOutcome(FALSE,
                          Some(<<"Action execution failed: ">> \o h.text),
                          h, FALSE)
         ELSE StepOutcome(TRUE, None, h, FALSE)

StepExecInit ==
    /\ MachineInit
    /\ WorkerIdle
    /\ val_goals = <<>>
    /\ val_answer = "unset"
    /\ val_step \in
          [action : Vocabulary \cup {"click", ""},
           parameters : [dict : {FALSE}, element_id : {Missing},
                         text : {Missing}, key : {Missing}] \cup
                        [dict : {TRUE},
                         element_id : {Missing, "int:0", "str:abc", "str:7",
                                       "int:7"},
                         text : {Missing, "str:", "str:hello"},
                         key : {Missing, PyNone, "str:c"}],
           primitive : {"true", "false", "raises"},
           raise_application : {"true", "false", "raises"}]
    /\ val_result = <<>>

CallExecuteStep ==
    /\ val_result = <<>>
    /\ val_result' = <<execute_step(val_step, val_step)>>
    /\ UNCHANGED <<mvars, result, call, hist, val_goals, val_answer, val_step,
                   xvars>>

StepExecNext == CallExecuteStep

StepExecSpec == StepExecInit /\ [][StepExecNext]_vars

----------------------------------------------------------------------------
(* Well-formed plans, stated without reference to validate_plan *)

Ids(gs) == {gs[i].id : i \in DOMAIN gs}

DistinctIds(gs) == \A i, j \in DOMAIN gs : gs[i].id = gs[j].id => i = j

DependenciesPresent(gs) ==
    \A i \in DOMAIN gs :
        \A k \in DOMAIN gs[i].dependencies : gs[i].dependencies[k] \in Ids(gs)

\* <<a, b>>: the goal with id a names b as a dependency
DependsOn(gs) ==
    UNION {{<<gs[i].id, gs[i].dependencies[k]>> : k \in DOMAIN gs[i].dependencies} :
             i \in DOMAIN gs}

\* the pairs joined by a path of at most n + 1 edges of R
RECURSIVE PathsUpTo(_, _)
PathsUpTo(R, n) ==
    IF n = 0 THEN R
    ELSE LET P == PathsUpTo(R, n - 1) IN
         P \cup {<<p[1], e[2]>> : <<p, e>> \in {pe \in P \X R : pe[1][2] = pe[2][1]}}

Acyclic(gs) ==
    \A e \in PathsUpTo(DependsOn(gs), Len(gs)) : e[1] # e[2]

WellFormedPlan(gs) == DistinctIds(gs) /\ DependenciesPresent(gs) /\ Acyclic(gs)

\* two goals name the same dependency, and one of the two depends on the other
SharedDependency(gs) ==
    \E i, j \in DOMAIN gs :
        /\ i # j
        /\ \E d \in Ids(gs) : <<gs[i].id, d>> \in DependsOn(gs)
                              /\ <<gs[j].id, d>> \in DependsOn(gs)
        /\ <<gs[i].id, gs[j].id>> \in DependsOn(gs)

----------------------------------------------------------------------------
(* Claims *)

\* the worker is inside execute_goals
ExecutorPositions ==
    {"execute_goals", "plan", "step", "execute_step", "validate",
     "on_step_failure", "raise"}

\* C1: the goal list reaches the Goal Execution Loop only on acceptance:
\* execute_goals is running only after an ACCEPT choice, with the machine in
\* GOALS_ACCEPTED; after a MODIFY or REJECT choice the worker is done and
\* every goal is still PENDING.
C1_ExecutionOnlyOnAcceptance ==
    /\ pc \in ExecutorPositions
          => /\ call.event = REVIEW_CHOICE_MADE
             /\ call.kwargs.choice = ACCEPT
             /\ state = GOALS_ACCEPTED
    /\ call.event = REVIEW_CHOICE_MADE /\ call.kwargs.choice \in {MODIFY, REJECT}
          => /\ pc \notin ExecutorPositions
             /\ \A i \in DOMAIN goals : goals[i].status = PENDING

\* C1, the case in the code: a goal has been marked IN_PROGRESS and is being
\* planned while the machine awaits the feedback of a MODIFY choice.
C1_ModifiedPlanExecuted ==
    /\ call.event = REVIEW_CHOICE_MADE
    /\ call.kwargs.choice = MODIFY
    /\ state = AWAITING_FEEDBACK
    /\ pc = "plan"
    /\ goals[1].status = IN_PROGRESS

\* the last call handed a request to the goal planner, and the planner returned
\* a plan (which is then the machine's goal list)
PlannerReturned == call.handed # <<>> /\ call.raised = <<>>

\* C2: in REVIEWING_GOALS, AWAITING_FEEDBACK, CONFIRMING_REJECTION and
\* GOALS_ACCEPTED the goal list has pairwise distinct ids, every dependency id
\* names a goal of the list and the dependency graph is acyclic; when the
\* planner returns a plan that is not so, the machine is in FAILED with the
\* "invalid structure" error.
C2_ReviewedPlanWellFormed ==
    /\ state \in {REVIEWING_GOALS, AWAITING_FEEDBACK, CONFIRMING_REJECTION,
                  GOALS_ACCEPTED}
          => WellFormedPlan(goals)
    /\ PlannerReturned /\ ~WellFormedPlan(goals)
          => /\ state = FAILED
             /\ error = Some(<<"Generated plan has invalid structure">>)

\* C2, witness: a two-goal plan whose second goal depends on the first has been
\* generated, reviewed and accepted.
C2_Witness ==
    /\ state = GOALS_ACCEPTED
    /\ Len(goals) = 2
    /\ goals[2].dependencies = <<goals[1].id>>

\* C3: validate_plan answers true exactly for the plans with pairwise distinct
\* ids, no dependency id outside the plan and no goal that reaches itself along
\* dependency edges.
C3_ValidatePlanExact ==
    val_answer # "unset" => (val_answer = "valid" <=> WellFormedPlan(val_goals))

\* C3, witness: validate_plan has accepted an acyclic plan in which two goals
\* share a dependency that is reached along two paths.
C3_Witness ==
    /\ val_answer = "valid"
    /\ Len(val_goals) = 3
    /\ SharedDependency(val_goals)

\* the request R followed by 'Feedback 1: f1', ..., 'Feedback n: fn'
Numbered(request, feedback) ==
    <<TextLine(request)>> \o [i \in 1..Len(feedback) |-> [idx |-> i, text |-> feedback[i]]]

\* C4: the request handed to the goal planner on a feedback is the original
\* request followed by every feedback submitted since, numbered from 1 in
\* submission order; the original request is never anything but the request of
\* the last PLAN_CREATED handled in CREATING_GOALS; and such a PLAN_CREATED
\* stores its request and empties the history.
C4_FeedbackAccumulates ==
    /\ call.event = FEEDBACK_PROVIDED /\ call.from = AWAITING_FEEDBACK
            /\ call.kwargs.feedback # Missing
          => /\ hist.feedback # <<>>
             /\ hist.feedback[Len(hist.feedback)] = call.kwargs.feedback
             /\ feedback_history = hist.feedback
             /\ call.handed # <<>>
                   => call.handed = <<Numbered(hist.request, hist.feedback)>>
             /\ call.handed = <<>> => call.raised = CaptureErrorText
    /\ ~original_request.none => original_request.s = <<TextLine(hist.request)>>
    /\ call.event = PLAN_CREATED /\ call.from = CREATING_GOALS
            /\ call.kwargs.user_request # Missing
          => /\ hist.request = call.kwargs.user_request
             /\ original_request = Some(<<TextLine(call.kwargs.user_request)>>)
             /\ feedback_history = <<>>
             /\ call.handed # <<>>
                   => call.handed = <<Numbered(call.kwargs.user_request, <<>>)>>

\* C4, witness: feedback "A" then "B" on the request "r1"; the planner got
\* r1, Feedback 1: A, Feedback 2: B and answered with a plan.
C4_Witness ==
    /\ state = REVIEWING_GOALS
    /\ call.event = FEEDBACK_PROVIDED
    /\ call.handed = << <<TextLine("r1"), FeedbackLine(1, "A"), FeedbackLine(2, "B")>> >>
    /\ original_request = Some(<<TextLine("r1")>>)

\* a step that handles event in the state st
Handles(event, st) ==
    /\ state = st
    /\ call'.event = event
    /\ call'.from = st

\* C5: from REVIEWING_GOALS, REVIEW_CHOICE_MADE goes to GOALS_ACCEPTED on ACCEPT
\* (needs-input false), to AWAITING_FEEDBACK on MODIFY and to
\* CONFIRMING_REJECTION on REJECT (needs-input true), returns the goal list and
\* leaves it as it was.
C5_ReviewChoiceTransitions ==
    [][Handles(REVIEW_CHOICE_MADE, REVIEWING_GOALS)
           /\ call'.kwargs.choice \in ReviewChoice
         => LET choice == call'.kwargs.choice
                target == CASE choice = ACCEPT -> GOALS_ACCEPTED
                            [] choice = MODIFY -> AWAITING_FEEDBACK
                            [] choice = REJECT -> CONFIRMING_REJECTION
            IN  /\ state' = target
                /\ result' = GoalStateResult(target, goals, None, choice # ACCEPT)
                /\ goals' = goals
                /\ call'.exc = <<>>]_vars

\* C5, witness: a MODIFY choice on a plan of two goals has been handled.
C5_Witness ==
    /\ call.event = REVIEW_CHOICE_MADE
    /\ call.from = REVIEWING_GOALS
    /\ call.kwargs.choice = MODIFY
    /\ state = AWAITING_FEEDBACK
    /\ Len(goals) = 2

\* C6: REVIEW_CHOICE_MADE in REVIEWING_GOALS with a choice that is none of
\* ACCEPT, MODIFY, REJECT leaves the machine in REVIEWING_GOALS and returns a
\* result with needs-input true that carries the goal list.
C6_UnrecognizedChoiceReprompts ==
    call.event = REVIEW_CHOICE_MADE /\ call.from = REVIEWING_GOALS
        /\ call.kwargs.choice \notin ReviewChoice
      => /\ state = REVIEWING_GOALS
         /\ result = GoalStateResult(REVIEWING_GOALS, goals, None, TRUE)

\* C6, the case in the code: a choice that is none of the three members and is
\* not falsy has been handled in REVIEWING_GOALS, and the call returned None.
C6_UnrecognizedChoiceReturnsNone ==
    /\ call.event = REVIEW_CHOICE_MADE
    /\ call.from = REVIEWING_GOALS
    /\ call.kwargs.choice = Unrecognized
    /\ state = REVIEWING_GOALS
    /\ result.none

\* C7: from CONFIRMING_REJECTION, YES empties the feedback history, unsets the
\* original request and goes to CREATING_GOALS; NO goes back to REVIEWING_GOALS
\* with the goal list, the feedback history and the original request as the
\* REJECT choice found them; both return needs-input true.
C7_RejectionConfirmation ==
    [][Handles(CONFIRM_REJECTION, CONFIRMING_REJECTION)
         => /\ call'.kwargs.confirm = YES
                  => /\ feedback_history' = <<>>
                     /\ original_request' = None
                     /\ state' = CREATING_GOALS
                     /\ ~result'.none /\ result'.needs_input
                     /\ result'.new_state = CREATING_GOALS
            /\ call'.kwargs.confirm = NO
                  => /\ state' = REVIEWING_GOALS
                     /\ result' = GoalStateResult(REVIEWING_GOALS, goals', None, TRUE)
                     /\ Snapshot([goals |-> goals',
                                  feedback_history |-> feedback_history',
                                  original_request |-> original_request'])
                          = hist.before_reject]_vars

\* C7, witness: a rejection of a plan that was regenerated on feedback has been
\* declined, and the machine is reviewing that plan again.
C7_Witness ==
    /\ call.event = CONFIRM_REJECTION
    /\ call.from = CONFIRMING_REJECTION
    /\ call.kwargs.confirm = NO
    /\ state = REVIEWING_GOALS
    /\ feedback_history # <<>>
    /\ goals # <<>>

\* the pairs that have a case of their own in handle_event's match statement
TransitionTable ==
    {<<CREATING_GOALS, PLAN_CREATED>>, <<REVIEWING_GOALS, REVIEW_CHOICE_MADE>>,
     <<AWAITING_FEEDBACK, FEEDBACK_PROVIDED>>,
     <<CONFIRMING_REJECTION, CONFIRM_REJECTION>>,
     <<GOALS_ACCEPTED, GOALS_COMPLETED>>, <<GOALS_ACCEPTED, GOALS_FAILED>>}

\* C8: ERROR_OCCURRED, in any state, leaves the machine in FAILED with the
\* supplied message stored; an event with no entry in the transition table for
\* the state leaves it in FAILED with the error 'Invalid event <event> for
\* state <state>'.
C8_ErrorAndInvalidEvents ==
    /\ call.event = ERROR_OCCURRED
          => /\ state = FAILED
             /\ call.kwargs.error # Missing => error = Some(<<call.kwargs.error>>)
             /\ result = GoalStateResult(FAILED, goals, error, FALSE)
    /\ call.event \in GoalEvent \ {ERROR_OCCURRED}
            /\ <<call.from, call.event>> \notin TransitionTable
          => /\ state = FAILED
             /\ error = Some(<<"Invalid event", call.event, "for state", call.from>>)
             /\ result = GoalStateResult(FAILED, goals, error, FALSE)

\* C8, witness: GOALS_COMPLETED has been handled in AWAITING_FEEDBACK.
C8_Witness ==
    /\ call.event = GOALS_COMPLETED
    /\ call.from = AWAITING_FEEDBACK
    /\ state = FAILED

\* C9: no exception leaves handle_event; when one is raised while an event is
\* handled, the call carries out the error transition: the machine is in
\* FAILED, its error ends with the exception's text, its goal list is the one
\* the call found, and the call returns the matching result.
C9_ExceptionsBecomeFailed ==
    [][/\ call'.exc = <<>>
       /\ call'.raised # <<>>
            => /\ state' = FAILED
               /\ ~error'.none
               /\ \E prefix \in {<<>>, <<"Error generating plan:">>} :
                      error'.s = prefix \o call'.raised
               /\ goals' = goals
               /\ result' = GoalStateResult(FAILED, goals, error', FALSE)]_vars

\* C9, witness: the plan-generation service answered a feedback with text that
\* is no JSON.
C9_Witness ==
    /\ call.event = FEEDBACK_PROVIDED
    /\ call.raised = BadJsonText
    /\ state = FAILED

\* C10: after the machine has entered FAILED the user can start a fresh
\* request: the texts that follow bring the machine back to CREATING_GOALS.
C10_FreshRequestAfterFailed == (state = FAILED) ~> (state = CREATING_GOALS)

\* C10, the case in the code: no step of the controller or of the machine
\* leaves FAILED.
C10_FailedIsAbsorbing == [][state = FAILED => state' = FAILED]_vars

\* C10, the case in the code: the machine is in FAILED and the worker waits for
\* the next text.
C10_FailedAndIdle == state = FAILED /\ pc = "idle"

\* C11: when a step has failed and on_step_failure answers True, the next thing
\* done is a new capture and Step Planner call for the same goal (which is
\* marked IN_PROGRESS again); the list the planner returns replaces the old
\* one, all its steps are PENDING, and execution starts at its first step.
C11_ReplanRestartsGoal ==
    [][/\ pc = "on_step_failure" /\ returned' = "none"
            => /\ pc' = "plan"
               /\ current_goal_index' = current_goal_index
               /\ goals'[current_goal_index + 1].status = IN_PROGRESS
       /\ pc = "plan" /\ pc' = "step"
            => /\ step_index' = 1
               /\ current_goal_index' = current_goal_index
               /\ \A i \in DOMAIN steps' : steps'[i].status = STEP_PENDING
       /\ pc = "step" /\ step_index \in DOMAIN steps /\ pc' # "step"
            => /\ steps[step_index].status = STEP_PENDING
               /\ \A i \in DOMAIN steps :
                      i > step_index => steps[i].status = STEP_PENDING]_vars

\* C11, witness: the second step of a list failed, the goal was planned again,
\* and the first step of the new list is being executed.
C11_Witness ==
    /\ depth = 1
    /\ failures = 1
    /\ consultations = 1
    /\ pc = "execute_step"
    /\ step_index = 1
    /\ Len(steps) = 2
    /\ steps[2].status = STEP_PENDING

\* C12: when a step of goal G has failed and on_step_failure answers False,
\* execute_goals returns False and G's status is FAILED.
C12_AbortMarksGoalFailed ==
    returned = "false"
        => /\ current_goal_index < Len(goals)
           /\ goals[current_goal_index + 1].status = GOAL_FAILED

\* C12, the case in the code: execute_goals has returned False and the goal
\* whose step failed is IN_PROGRESS.
C12_AbortedGoalInProgress ==
    /\ returned = "false"
    /\ pc = "done"
    /\ goals[current_goal_index + 1].status = IN_PROGRESS

\* C13: when a step has failed and on_step_failure answers False, execute_goals
\* returns False, the failed step is FAILED, and the goal stays IN_PROGRESS:
\* current_goal_index still designates it, and no other goal has changed.
C13_AbortLeavesGoalInProgress ==
    [][pc = "on_step_failure" /\ returned' # "none"
         => /\ returned' = "false"
            /\ steps'[step_index'].status = STEP_FAILED
            /\ goals[current_goal_index + 1].status = IN_PROGRESS
            /\ goals' = goals
            /\ current_goal_index' = current_goal_index
            /\ steps' = steps /\ step_index' = step_index]_vars

\* C13, witness: the second step of the only goal failed after the first one
\* succeeded, and the run was ended.
C13_Witness ==
    /\ returned = "false"
    /\ Len(goals) = 1
    /\ goals[1].status = IN_PROGRESS
    /\ step_index = 2
    /\ steps[1].status = STEP_COMPLETED
    /\ steps[2].status = STEP_FAILED

\* C14: execute_goals called on a new executor whose goals are all COMPLETED
\* returns True at once: no goal status changes and neither the Step Planner
\* nor the Step Runner is reached.
C14_CompletedListIsLeftAlone ==
    [][/\ pc = "execute_goals"
       /\ current_goal_index = 0
       /\ \A i \in DOMAIN goals : goals[i].status = COMPLETED
         => /\ returned' = "true"
            /\ pc' = "done"
            /\ goals' = goals]_vars

\* C15: validate_step_result returns (True, None) for every step without
\* validation criteria, whatever the application and pointer state, and also
\* for every step with criteria; the plan-generation service is not consulted.
C15_StepValidationAlwaysSucceeds ==
    val_result # <<>>
        => /\ val_result[1].success
           /\ val_result[1].error = None
           /\ ~val_result[1].consulted

\* C15, witness: the function has been applied to a step that carries criteria,
\* in an application state that does not meet them.
C15_Witness ==
    /\ val_result # <<>>
    /\ val_step.validation_criteria = "criteria"
    /\ val_step.excel_state = "dialog"

\* C16: called on an accepted plan, execute_goals comes to an end;
\* when it returns True every goal is COMPLETED and every step of the list
\* executed last is COMPLETED, and when no step failed and nothing was raised
\* it does return True.
C16_AcceptedPlanRunsToCompletion ==
    (pc = "execute_goals" /\ state = GOALS_ACCEPTED)
        ~> (/\ pc = "done"
            /\ returned # "none"
            /\ returned = "true"
                  => /\ \A i \in DOMAIN goals : goals[i].status = COMPLETED
                     /\ \A i \in DOMAIN steps : steps[i].status = STEP_COMPLETED
            /\ failures = 0 /\ returned # "raised" => returned = "true")

\* C16, witness: an accepted plan of two goals has been executed, the second
\* goal in two steps, and execute_goals has returned True.
C16_Witness ==
    /\ pc = "done"
    /\ state = GOALS_ACCEPTED
    /\ returned = "true"
    /\ failures = 0
    /\ Len(goals) = 2
    /\ Len(steps) = 2
    /\ \A i \in DOMAIN goals : goals[i].status = COMPLETED

\* C17: while an accepted plan is executed, a goal is IN_PROGRESS only when
\* every goal named in its dependencies is COMPLETED.
C17_DependenciesCompletedFirst ==
    state = GOALS_ACCEPTED /\ pc \in ExecutorPositions
        => \A i, j \in DOMAIN goals :
               /\ goals[i].status = IN_PROGRESS
               /\ \E k \in DOMAIN goals[i].dependencies :
                      goals[i].dependencies[k] = goals[j].id
             => goals[j].status = COMPLETED

\* C17, the case in the code: the first goal of an accepted plan depends on the
\* second one and is IN_PROGRESS while the second one is PENDING.
C17_DependentGoalStartedFirst ==
    /\ state = GOALS_ACCEPTED
    /\ pc = "plan"
    /\ Len(goals) = 2
    /\ goals[1].dependencies = <<goals[2].id>>
    /\ goals[1].status = IN_PROGRESS
    /\ goals[2].status = PENDING

\* the positions of execute_current_goal's for loop
LoopPositions == {"step", "execute_step", "validate", "on_step_failure"}

\* C18: during a call of execute_goals the failure policy is consulted once
\* for each failed step and for nothing else: a failure is followed at once by
\* the consultation, which finds the step marked FAILED and the steps observer
\* told of it; the answer is followed by exactly one of a replan of the same
\* goal and the end of the run with False; and the loop never stands past a
\* step that is not COMPLETED.
C18_PolicyConsultedOncePerFailure ==
    /\ [](/\ consultations <= failures
          /\ failures <= consultations + 1
          /\ failures = consultations + 1 <=> pc = "on_step_failure"
          /\ pc = "on_step_failure"
                => /\ steps[step_index].status = STEP_FAILED
                   /\ steps_update = [steps |-> steps, current |-> step_index]
          /\ pc \in LoopPositions
                => \A i \in DOMAIN steps :
                       (i < step_index => steps[i].status = STEP_COMPLETED))
    /\ [][/\ failures' # failures /\ pc # "done"
               => failures' = failures + 1 /\ pc' = "on_step_failure"
          /\ consultations' # consultations /\ pc # "done"
               => /\ consultations' = consultations + 1
                  /\ pc = "on_step_failure"
                  /\ current_goal_index' = current_goal_index
                  /\ \/ /\ pc' = "plan"
                        /\ returned' = "none"
                        /\ goals'[current_goal_index + 1].status = IN_PROGRESS
                     \/ /\ pc' = "done"
                        /\ returned' = "false"
                        /\ goals' = goals]_vars

\* C18, witness: two steps have failed in one call of execute_goals, the
\* policy answered True for the first and False for the second, and the call
\* has returned False.
C18_Witness ==
    /\ pc = "done"
    /\ returned = "false"
    /\ failures = 2
    /\ consultations = 2

\* C19: a step is COMPLETED only once validate_step_result has been run for
\* it, that is, once the loop has moved past it.
C19_CompletedOnlyAfterValidation ==
    pc \in LoopPositions \cup {"raise"}
        => \A i \in DOMAIN steps :
               (steps[i].status = STEP_COMPLETED => i < step_index)

\* C19, the case in the code: execute_step has returned with the step marked
\* COMPLETED and validate_step_result is still to be called for it.
C19_CompletedBeforeValidation ==
    /\ pc = "validate"
    /\ step_index \in DOMAIN steps
    /\ steps[step_index].status = STEP_COMPLETED
    /\ steps_update.steps[step_index].status = STEP_IN_PROGRESS

\* C20: at most one worker runs the input callback, and it is the one
\* active_thread names; a worker is started only by a submission made while
\* none runs, and the callback is entered only by a worker so started; a
\* submission made while a worker runs is turned away and changes nothing
\* else: not the worker that runs, not the machine, and nothing is kept of it
\* for later.
C20_OneOperationInFlight ==
    /\ [](/\ workers <= 1
          /\ workers = 1 <=> active_thread # PyNone
          /\ workers = 1 <=> pc # "idle"
          /\ rejected => workers = 1)
    /\ [][/\ workers' > workers
               => /\ workers = 0
                  /\ pc = "idle"
                  /\ pc' = "callback"
                  /\ rejected' = FALSE
          /\ pc' = "callback" /\ pc # "callback" => workers' = workers + 1
          /\ rejected' /\ ~rejected
               => /\ workers = 1
                  /\ UNCHANGED <<mvars, result, call, hist, vvars, pc, exc,
                                 evars, caller, gvars, steps_update,
                                 goal_update,
                                 active_thread, workers>>]_vars

\* C20, witness: a text was submitted and turned away while the worker of an
\* earlier submission is executing a step of an accepted plan.
C20_Witness ==
    /\ rejected
    /\ workers = 1
    /\ pc = "execute_step"
    /\ state = GOALS_ACCEPTED

\* the parameter a handler requires of a step with this action is absent or
\* not of the required form
BadParameter(step) ==
    \/ /\ ~step.parameters.dict
       /\ step.action \notin {"left_click", "right_click", "double_left_click"}
    \/ /\ step.parameters.dict
       /\ \/ /\ step.action \in {"move_to_element", "drag_to_element"}
             /\ step.parameters.element_id \in {Missing, "str:abc"}
          \/ /\ step.action = "type_text"
             /\ step.parameters.text \in {Missing, "str:"}
          \/ /\ step.action = "press_key_combo"
             /\ step.parameters.key \in {Missing, PyNone}

\* C21: no exception leaves execute_step. For an action outside the vocabulary
\* no primitive is called and (False, 'Unknown action: <action>') is returned;
\* for an absent or malformed required parameter no primitive is called and
\* (False, message) is returned; when the primitive raises, (False, message)
\* is returned; and whenever False is returned the step is FAILED and its
\* error_message is the message returned.
C21_ExecuteStepNeverRaises ==
    val_result # <<>> /\ "action" \in DOMAIN val_step
        => LET r == val_result[1] IN
           /\ ~r.raised
           /\ val_step.action \notin Vocabulary
                => /\ ~r.success
                   /\ r.invoked = PyNone
                   /\ r.error = Some(<<"Unknown action: ", val_step.action>>)
           /\ BadParameter(val_step) /\ val_step.action \in Vocabulary
                => /\ ~r.success
                   /\ r.invoked = PyNone
           /\ r.reported = "raises" => ~r.success
           /\ ~r.success
                => /\ r.status = STEP_FAILED
                   /\ r.error # None
                   /\ r.error_message = r.error

\* C21, witness: execute_step has been applied to a step of the vocabulary
\* whose required parameter is well formed, and the primitive raised.
C21_Witness ==
    /\ val_result # <<>>
    /\ "action" \in DOMAIN val_step
    /\ val_step.action = "move_to_element"
    /\ val_result[1].invoked = "move_to_element"
    /\ val_result[1].reported = "raises"
    /\ val_result[1].status = STEP_FAILED

\* C22: whenever the primitive called for a step reports failure, by raising
\* or by returning False, execute_step returns (False, error) and the step is
\* FAILED.
C22_PrimitiveFailureFailsStep ==
    val_result # <<>> /\ "action" \in DOMAIN val_step
        => LET r == val_result[1] IN
           r.invoked # PyNone /\ r.reported \in {"false", "raises"}
               => /\ ~r.success
                  /\ r.error # None
                  /\ r.status = STEP_FAILED

\* C22, the case in the code: left_click returned False and execute_step
\* returned (True, None) with the step COMPLETED.
C22_FailedPrimitiveReportedSuccessful ==
    /\ val_result # <<>>
    /\ "action" \in DOMAIN val_step
    /\ val_result[1].invoked = "left_click"
    /\ val_result[1].reported = "false"
    /\ val_result[1].success
    /\ val_result[1].error = None
    /\ val_result[1].status = STEP_COMPLETED

\* C23: when the execution of an accepted plan ends, the controller tells the
\* machine how: GOALS_COMPLETED after True and GOALS_FAILED after False, each
\* taking the machine from GOALS_ACCEPTED to CREATING_GOALS, and after an
\* exception ERROR_OCCURRED, which leaves the machine in FAILED with the
\* exception's text stored.
C23_OutcomeFedBack ==
    [][state = GOALS_ACCEPTED /\ pc \in ExecutorPositions /\ pc' = "idle"
         => /\ call'.from = GOALS_ACCEPTED
            /\ returned' \in {"true", "false", "raised"}
            /\ returned' = "true"
                 => /\ call'.event = GOALS_COMPLETED
                    /\ state' = CREATING_GOALS
            /\ returned' = "false"
                 => /\ call'.event = GOALS_FAILED
                    /\ state' = CREATING_GOALS
            /\ returned' = "raised"
                 => /\ call'.event = ERROR_OCCURRED
                    /\ exc # ""
                    /\ error' = Some(<<exc>>)
                    /\ state' = FAILED]_vars

\* C23, witness: the execution of an accepted plan ended with False, and the
\* machine, told GOALS_FAILED in GOALS_ACCEPTED, is in CREATING_GOALS.
C23_Witness ==
    /\ pc = "idle"
    /\ returned = "false"
    /\ call.event = GOALS_FAILED
    /\ call.from = GOALS_ACCEPTED
    /\ state = CREATING_GOALS

\* C24: whenever the machine is in FAILED, its stored error is a message that
\* is not empty, and it is the message the last handle_event call, which
\* entered FAILED, returned.
C24_ErrorAvailableInFailed ==
    state = FAILED
        => /\ error # None
           /\ \E i \in DOMAIN error.s : error.s[i] # ""
           /\ ~result.none
           /\ result.error = error

\* C24, the case in the code: the machine is in FAILED and the error it has
\* stored is the empty string.
C24_FailedWithEmptyError ==
    /\ state = FAILED
    /\ error = Some(<<"">>)
    /\ call.event = ERROR_OCCURRED

\* C25: when the failure policy refuses a replan for a goal, execute_goals
\* returns with current_goal_index unchanged and designating that goal; the
\* index is unchanged when execute_goals is called again, and the call begins
\* with the goal the index designates, which it marks IN_PROGRESS and plans;
\* the index moves only by one, past a goal that is COMPLETED.
C25_RefusedGoalIsNextAttempted ==
    [][/\ pc = "on_step_failure" /\ pc' = "done"
            => /\ returned' = "false"
               /\ current_goal_index' = current_goal_index
               /\ current_goal_index < Len(goals)
       /\ pc = "done" => current_goal_index' = current_goal_index
       /\ pc = "execute_goals" /\ current_goal_index < Len(goals)
            => /\ pc' = "plan"
               /\ current_goal_index' = current_goal_index
               /\ goals'[current_goal_index + 1].status = IN_PROGRESS
       /\ current_goal_index' # current_goal_index
            => /\ current_goal_index' = current_goal_index + 1
               /\ goals'[current_goal_index + 1].status = COMPLETED]_vars

\* C25, witness: the run ended with the policy's refusal for the second goal
\* of two, the first being COMPLETED, and the index designates the second.
C25_Witness ==
    /\ pc = "done"
    /\ returned = "false"
    /\ consultations > 0
    /\ Len(goals) = 2
    /\ current_goal_index = 1
    /\ goals[1].status = COMPLETED
    /\ goals[2].status = IN_PROGRESS

\* C26: an exception raised while a goal is executed (a failed state capture,
\* a Step Planner answer that cannot be parsed or lacks a field, a debug
\* record that cannot be written) is raised
\* without the failure policy being consulted, and the next thing that
\* happens is that it leaves execute_goals, with the current goal marked
\* FAILED, the goal observer told so, no further consultation, no further
\* planning and current_goal_index as it was.
C26_ExceptionFailsGoalAndPropagates ==
    [][/\ pc' = "raise" /\ pc # "raise"
            => /\ exc' \in {StateErrorText, StepJsonErrorText,
                            StepFieldErrorText, DebugWriteErrorText}
               /\ consultations' = consultations
               /\ current_goal_index' = current_goal_index
       /\ pc = "raise"
            => /\ pc' = "done"
               /\ returned' = "raised"
               /\ exc' = exc
               /\ goals'[current_goal_index + 1].status = GOAL_FAILED
               /\ goal_update' = GoalUpdate(GOAL_FAILED)
               /\ consultations' = consultations
               /\ current_goal_index' = current_goal_index]_vars

\* C26, witness: the Step Planner's answer for the second goal could not be
\* parsed, and the exception has left execute_goals.
C26_Witness ==
    /\ pc = "done"
    /\ returned = "raised"
    /\ exc = StepJsonErrorText
    /\ current_goal_index = 1
    /\ goals[2].status = GOAL_FAILED
    /\ goal_update = [index |-> 1, status |-> GOAL_FAILED]
    /\ consultations = 0

\* C27: while execute_goals runs on a newly planned list, every goal before
\* the current index is COMPLETED, every goal after the current one is PENDING
\* as it was planned, only the current goal is ever IN_PROGRESS, at most one
\* step is IN_PROGRESS, and the completed goals handed to the Step Planner
\* are the COMPLETED goals of the list, in list order.
C27_GoalsInListOrder ==
    pc \in ExecutorPositions
        => /\ \A i \in DOMAIN goals :
                 /\ i <= current_goal_index => goals[i].status = COMPLETED
                 /\ i > current_goal_index + 1 => goals[i].status = PENDING
                 /\ goals[i].status = IN_PROGRESS => i = current_goal_index + 1
           /\ Cardinality({i \in DOMAIN steps :
                               steps[i].status = STEP_IN_PROGRESS}) <= 1
           /\ pc = "plan"
                => completed_goals
                      = SelectSeq(goals, LAMBDA g : g.status = COMPLETED)

\* C27, witness: the second goal of two is being planned, with the first one
\* as the completed goals handed to the planner.
C27_Witness ==
    /\ pc = "plan"
    /\ Len(goals) = 2
    /\ current_goal_index = 1
    /\ completed_goals = <<goals[1]>>
    /\ goals[1].status = COMPLETED
    /\ goals[2].status = IN_PROGRESS

\* C28: once the Step Planner has returned the step list of a goal, the
\* goal's own step sequence is that list, and after a replan the new one.
C28_PlannedStepsStoredOnGoal ==
    pc \in LoopPositions => goals[current_goal_index + 1].steps = steps

\* C28, the case in the code: the second plan made for a goal, of two steps, is
\* being executed, and the goal's own step sequence is empty.
C28_GoalStepsLeftEmpty ==
    /\ pc = "execute_step"
    /\ depth = 1
    /\ Len(steps) = 2
    /\ goals[current_goal_index + 1].steps = <<>>

\* C29: a goal that the engine has marked IN_PROGRESS has started_at set, and
\* a goal that is COMPLETED or FAILED has completed_at set.
C29_StatusChangesStampTime ==
    \A i \in DOMAIN goals :
        /\ goals[i].status \in {IN_PROGRESS, COMPLETED, GOAL_FAILED}
             => goals[i].started_at
        /\ goals[i].status \in {COMPLETED, GOAL_FAILED}
             => goals[i].completed_at

\* C29, the case in the code: execute_goals has marked the first goal
\* COMPLETED and is at the second, and the first has neither started_at nor
\* completed_at.
C29_CompletedWithoutTimestamps ==
    /\ pc = "plan"
    /\ current_goal_index = 1
    /\ goals[1].status = COMPLETED
    /\ ~goals[1].started_at
    /\ ~goals[1].completed_at

\* the changes of a step's status that go forward
Forward ==
    {<<STEP_PENDING, STEP_IN_PROGRESS>>, <<STEP_IN_PROGRESS, STEP_COMPLETED>>,
     <<STEP_IN_PROGRESS, STEP_FAILED>>,
     <<STEP_IN_PROGRESS, STEP_VALIDATION_FAILED>>}

\* C30: while a planned list is executed, a step's status changes only
\* from PENDING to IN_PROGRESS and from IN_PROGRESS to COMPLETED, FAILED or
\* VALIDATION_FAILED; the step that is executed is one that was PENDING; and
\* the list a plan or replan produces consists of PENDING steps.
C30_StepStatusMovesForward ==
    [][/\ pc \in LoopPositions
            => /\ DOMAIN steps' = DOMAIN steps
               /\ \A i \in DOMAIN steps :
                      \/ steps'[i].status = steps[i].status
                      \/ <<steps[i].status, steps'[i].status>> \in Forward
       /\ pc = "step" /\ step_index \in DOMAIN steps
            => /\ steps[step_index].status = STEP_PENDING
               /\ steps'[step_index].status = STEP_IN_PROGRESS
       /\ pc = "plan" /\ pc' = "step"
            => \A i \in DOMAIN steps' : steps'[i].status = STEP_PENDING]_vars

\* C30, witness: after a failed step and a replan, the first step of the new
\* list has been executed and is COMPLETED, and the second is PENDING.
C30_Witness ==
    /\ pc = "step"
    /\ depth = 1
    /\ failures = 1
    /\ Len(steps) = 2
    /\ step_index = 2
    /\ steps[1].status = STEP_COMPLETED
    /\ steps[2].status = STEP_PENDING

C32_GateReleasedOnExit ==
    /\ [](pc = "idle" => active_thread = PyNone /\ workers = 0 /\ ~rejected)
    /\ [][/\ (pc # "idle" /\ pc' = "idle")
              => /\ active_thread' = PyNone
                 /\ workers' = 0
                 /\ returned' \in {"none", "true", "false", "raised"}
          /\ pc = "idle"
              => /\ pc' = "callback"
                 /\ active_thread' = Thread
                 /\ workers' = 1
                 /\ ~rejected']_vars

\* C32, witness: execute_goals raised in the last worker, the machine is
\* FAILED, and the submission made after the worker ended has been accepted.
C32_Witness ==
    /\ returned = "raised"
    /\ state = FAILED
    /\ pc = "callback"
    /\ active_thread = Thread
    /\ workers = 1

\* C33: self.lock is not held while the failure-policy dialog waits for its
\* answer, and the UI thread never has to wait for it with the rejection
\* message.
C33_LockNotHeldAcrossDialog ==
    /\ pc = "dialog" => lock = PyNone
    /\ ui_pc # "log_message"

\* C33, the case in the code: the worker holds self.lock in ask_yes_no with the
\* dialog unanswered, and the UI thread, holding self.thread_lock, waits for
\* self.lock in log_message.
C33_UiWaitsForDialog ==
    /\ pc = "dialog"
    /\ lock = "worker"
    /\ ui_pc = "log_message"
    /\ thread_lock = "ui"

\* C34: whenever the call that foregrounds the application fails, by reporting
\* false or by raising, execute_step goes on as it does when the call succeeds:
\* the handler of a step of the vocabulary is run, and what execute_step
\* returns and leaves in the step is what the action alone gives.
C34_ForegroundIsBestEffort ==
    val_result # <<>> /\ "action" \in DOMAIN val_step
        /\ val_step.raise_application \in {"false", "raises"}
        => LET r == val_result[1]
               h == handler(val_step.action, val_step.parameters,
                            val_step.primitive)
           IN  /\ r = execute_step(val_step,
                                   [val_step EXCEPT !.raise_application = "true"])
               /\ val_step.action \in Vocabulary
                    => /\ r.invoked = h.invoked
                       /\ r.reported = h.reported
                       /\ r.success = ~h.raised
               /\ val_step.action \in {"left_click", "right_click",
                                        "double_left_click"}
                    => r.invoked = val_step.action

\* C34, witness: the foreground call raised, and execute_step called the
\* primitive of the step and returned success.
C34_Witness ==
    /\ val_result # <<>>
    /\ "action" \in DOMAIN val_step
    /\ val_step.raise_application = "raises"
    /\ val_step.action = "type_text"
    /\ val_result[1].invoked = "type_text"
    /\ val_result[1].reported = "true"
    /\ val_result[1].success

\* C35: a debug record that cannot be written changes nothing of the run: it
\* is not the exception that ends the execution of a goal, and it is not what
\* execute_goals ends with.
C35_DebugWriteIsNoControlInput ==
    exc = DebugWriteErrorText => pc # "raise" /\ returned # "raised"

\* C35, the case in the code: every planned step was executed and validated
\* without a failure, the debug record after the last one could not be
\* written, and execute_goals raised with the goal marked FAILED.
C35_RunEndedByDebugWrite ==
    /\ pc = "done"
    /\ returned = "raised"
    /\ exc = DebugWriteErrorText
    /\ failures = 0
    /\ steps # <<>>
    /\ \A i \in DOMAIN steps : steps[i].status = STEP_COMPLETED
    /\ goals[current_goal_index + 1].status = GOAL_FAILED

\* a goal as Goal(...) builds it: PENDING, without steps, error message and
\* timestamps
Fresh(goal) ==
    /\ goal.status = PENDING
    /\ goal.steps = <<>>
    /\ goal.error_message = PyNone
    /\ ~goal.started_at
    /\ ~goal.completed_at

C37_FailedGenerationCommitsNothing ==
    [][state' = FAILED
         /\ \/ state = CREATING_GOALS /\ call'.event = PLAN_CREATED
            \/ state = AWAITING_FEEDBACK /\ call'.event = FEEDBACK_PROVIDED
         /\ call'.from = state
         => goals' = goals]_vars

\* C37, the case in the code: feedback was given on a well-formed plan, the
\* plan generated from it was rejected by validate_plan, and the machine is
\* FAILED with the rejected plan as its goal list.
C37_RejectedPlanStored ==
    /\ state = FAILED
    /\ call.event = FEEDBACK_PROVIDED
    /\ call.from = AWAITING_FEEDBACK
    /\ error = Some(<<"Generated plan has invalid structure">>)
    /\ goals # <<>>
    /\ ~WellFormedPlan(goals)
    /\ result.goals = goals

\* C38: every handle_event call returns a GoalStateResult, and its new_state is
\* the state the machine is in after the call.
C38_ResultNamesTheState ==
    call # NoCall => ~result.none /\ result.new_state = state

\* C38, the case in the code: CONFIRM_REJECTION was handled in
\* CONFIRMING_REJECTION with a confirm value that is neither YES nor NO, and
\* handle_event returned None.
C38_ConfirmationReturnedNone ==
    /\ call.event = CONFIRM_REJECTION
    /\ call.from = CONFIRMING_REJECTION
    /\ call.kwargs.confirm \notin {YES, NO, Missing}
    /\ call.exc = <<>>
    /\ result.none
    /\ state = CONFIRMING_REJECTION

\* C39: every call of execute_goals comes to an end, returning or raising (the
\* step lists are finite and the failure policy answers True at most
\* MaxReplans times for a goal); current_goal_index changes only when
\* execute_current_goal has run through the steps of the goal and marked it
\* COMPLETED, then by exactly one whether or not the goal was replanned, and
\* never passes the end of the list.
C39_ExecuteGoalsTerminates ==
    /\ (pc = "execute_goals")
          ~> (pc = "done" /\ returned \in {"true", "false", "raised"})
    /\ [][/\ current_goal_index' # current_goal_index
               => /\ current_goal_index' = current_goal_index + 1
                  /\ pc = "step" /\ pc' = "execute_goals"
                  /\ goals'[current_goal_index + 1].status = COMPLETED
          /\ pc = "step" /\ pc' = "execute_goals"
               => current_goal_index' = current_goal_index + 1
          /\ current_goal_index' <= Len(goals')]_vars

\* C39, witness: execute_goals has returned True on a list of two goals after
\* the failure policy was consulted and answered True.
C39_Witness ==
    /\ pc = "done"
    /\ returned = "true"
    /\ consultations >= 1
    /\ Len(goals) = 2
    /\ current_goal_index = 2

\* C40: when execute_goals has returned True, current_goal_index is at the end
\* of the list; the call that follows on the same executor begins there, with
\* nothing planned and no observer called, and ends in its first step: it
\* returns True with no step planned or executed, no observer called, the
\* failure policy not consulted and every goal as it was.
C40_SecondCallDoesNothing ==
    /\ [](pc = "done" /\ returned = "true" => current_goal_index = Len(goals))
    /\ [][/\ pc = "done" /\ returned = "true"
               => /\ pc' = "execute_goals"
                  /\ current_goal_index' = Len(goals)
                  /\ goals' = goals
                  /\ steps' = <<>>
                  /\ steps_update' = NoStepsUpdate
                  /\ goal_update' = NoGoalUpdate
                  /\ failures' = 0
                  /\ consultations' = 0
          /\ pc = "execute_goals" /\ current_goal_index = Len(goals)
               => /\ pc' = "done"
                  /\ returned' = "true"
                  /\ goals' = goals
                  /\ UNCHANGED <<current_goal_index, steps, steps_update,
                                 goal_update, failures, consultations>>]_vars

\* C40, witness: execute_goals has returned True for the second time on a list
\* of two goals: no observer was called during the call and both goals are
\* COMPLETED.
C40_Witness ==
    /\ pc = "done"
    /\ returned = "true"
    /\ Len(goals) = 2
    /\ current_goal_index = 2
    /\ \A i \in DOMAIN goals : goals[i].status = COMPLETED
    /\ steps = <<>>
    /\ steps_update = NoStepsUpdate
    /\ goal_update = NoGoalUpdate

====
